---------------------------- MODULE Spec2Model ----------------------------
(***************************************************************************)
(* Desktop Cleaner: categorizer, scanner, mover and orchestration service. *)
(*                                                                         *)
(* Strings are sequences of one-character strings, so that pathlib's stem  *)
(* and suffix, str.lower() and the f-string of the collision suffix are    *)
(* computed as the code computes them.  A filesystem path is a sequence of *)
(* components (each a string); the filesystem is POSIX-flavoured           *)
(* (case-sensitive names, "/" as the only separator).                      *)
(***************************************************************************)
EXTENDS Integers, Sequences, FiniteSets, TLC

VARIABLES
    catIn,      \* categorizer: the path string handed to Path(...)
    catOut,     \* categorizer: labels returned for the string, its upper and lower form
    fs,         \* filesystem: path -> [kind, data, mode]
    fs0,        \* the filesystem before the first operation of the run
    results,    \* mover: the MoveResult of every move_file call so far, in call order
    calls,      \* mover: arguments, value returned and exception of every call so far
    pc,         \* service: position of the caller in the workflow
    files,      \* service: the list of FileInfo handed to create_organization_plan
    plan,       \* service: the OrganizationPlan
    ex,         \* service: the locals of execute_plan and its trace of attempts
    scan,       \* scanner: position and locals of scan_desktop, and its outcome
    main,       \* main: position of main(), the answer of the prompt, the runs so far
    race        \* two callers of move_file: their positions between check and relocation

vars == <<catIn, catOut, fs, fs0, results, calls, pc, files, plan, ex, scan, main, race>>

----------------------------------------------------------------------------
(* Bounds of the model                                                     *)

MaxStrLen == 3      \* longest string handed to the categorizer
MaxMoves == 3       \* number of move_file calls of the single caller
NumSources == 3     \* number of source folders holding a file of the same base name
MaxFiles == 3       \* longest list of FileInfo handed to create_organization_plan
MaxCalls == 3       \* number of create_category_folder calls of the single caller
MaxRemovals == 1    \* entries another process removes while a scan is running

----------------------------------------------------------------------------
(* Characters and strings                                                  *)

LowerLetters == <<"a","b","c","d","e","f","g","h","i","j","k","l","m","n","o","p","q","r","s","t","u","v","w","x","y","z">>
UpperLetters == <<"A","B","C","D","E","F","G","H","I","J","K","L","M","N","O","P","Q","R","S","T","U","V","W","X","Y","Z">>

\* U+0131 LATIN SMALL LETTER DOTLESS I, one character of the string
DotlessI == "dotless_i"

IndexIn(seq, c) ==
    IF \E i \in 1..Len(seq) : seq[i] = c
    THEN CHOOSE i \in 1..Len(seq) : seq[i] = c
    ELSE 0

\* str.lower() on one character: A-Z map to a-z; U+0131 is already lowercase
LowerChar(c) ==
    LET i == IndexIn(UpperLetters, c)
    IN IF i > 0 THEN LowerLetters[i] ELSE c

\* str.upper() on one character: a-z map to A-Z; U+0131 maps to "I"
UpperChar(c) ==
    LET i == IndexIn(LowerLetters, c)
    IN IF i > 0 THEN UpperLetters[i]
       ELSE IF c = DotlessI THEN "I" ELSE c

Lower(s) == [i \in 1..Len(s) |-> LowerChar(s[i])]
Upper(s) == [i \in 1..Len(s) |-> UpperChar(s[i])]

\* str.rfind(c), as a 1-based index; 0 when c does not occur
RFind(s, c) ==
    IF \E i \in 1..Len(s) : s[i] = c
    THEN CHOOSE i \in 1..Len(s) : s[i] = c /\ \A j \in (i+1)..Len(s) : s[j] # c
    ELSE 0

\* str(n) for n >= 0
RECURSIVE DecStr(_)
DecStr(n) ==
    LET d == <<"0","1","2","3","4","5","6","7","8","9">>[(n % 10) + 1]
    IN IF n < 10 THEN <<d>> ELSE Append(DecStr(n \div 10), d)

----------------------------------------------------------------------------
(* pathlib                                                                 *)

\* the components of a path string between "/" separators, empty ones included
RECURSIVE SplitSlash(_, _, _)
SplitSlash(s, i, cur) ==
    IF i > Len(s) THEN <<cur>>
    ELSE IF s[i] = "/" THEN <<cur>> \o SplitSlash(s, i + 1, <<>>)
    ELSE SplitSlash(s, i + 1, Append(cur, s[i]))

\* PurePosixPath(s).parts without the root: empty and "." components are dropped
PathParts(s) ==
    SelectSeq(SplitSlash(s, 1, <<>>), LAMBDA x : x # <<>> /\ x # <<".">>)

\* PurePath.name of Path(s): the final component, "" when there is none
PathName(s) ==
    LET parts == PathParts(s)
    IN IF parts = <<>> THEN <<>> ELSE parts[Len(parts)]

\* PurePath.suffix of a final component: from the last dot on, unless that dot
\* is the first or the last character
Suffix(name) ==
    LET i == RFind(name, ".")
    IN IF 1 < i /\ i < Len(name) THEN SubSeq(name, i, Len(name)) ELSE <<>>

\* PurePath.stem of a final component
Stem(name) ==
    LET i == RFind(name, ".")
    IN IF 1 < i /\ i < Len(name) THEN SubSeq(name, 1, i - 1) ELSE name

----------------------------------------------------------------------------
(* categorizer.py                                                          *)

Documents == <<"D","o","c","u","m","e","n","t","s">>
Images == <<"I","m","a","g","e","s">>
Videos == <<"V","i","d","e","o","s">>
PDF == <<"P","D","F">>
ZIPs == <<"Z","I","P","s">>
Installers == <<"I","n","s","t","a","l","l","e","r","s">>
Others == <<"O","t","h","e","r","s">>

CategoryLabels == {Documents, Images, Videos, PDF, ZIPs, Installers, Others}

CATEGORIES ==
  <<
    [category |-> Documents, extensions |-> <<
       <<".","d","o","c">>,
       <<".","d","o","c","x">>,
       <<".","t","x","t">>,
       <<".","r","t","f">>,
       <<".","o","d","t">>,
       <<".","x","l","s">>,
       <<".","x","l","s","x">>,
       <<".","p","p","t">>,
       <<".","p","p","t","x">>
    >>],
    [category |-> Images, extensions |-> <<
       <<".","j","p","g">>,
       <<".","j","p","e","g">>,
       <<".","p","n","g">>,
       <<".","g","i","f">>,
       <<".","b","m","p">>,
       <<".","s","v","g">>,
       <<".","i","c","o">>,
       <<".","w","e","b","p">>
    >>],
    [category |-> Videos, extensions |-> <<
       <<".","m","p","4">>,
       <<".","a","v","i">>,
       <<".","m","k","v">>,
       <<".","m","o","v">>,
       <<".","w","m","v">>,
       <<".","f","l","v">>,
       <<".","w","e","b","m">>
    >>],
    [category |-> PDF, extensions |-> <<
       <<".","p","d","f">>
    >>],
    [category |-> ZIPs, extensions |-> <<
       <<".","z","i","p">>,
       <<".","r","a","r">>,
       <<".","7","z">>,
       <<".","t","a","r">>,
       <<".","g","z">>
    >>],
    [category |-> Installers, extensions |-> <<
       <<".","e","x","e">>,
       <<".","m","s","i">>,
       <<".","d","m","g">>,
       <<".","p","k","g">>
    >>]
  >>

Range(seq) == {seq[i] : i \in 1..Len(seq)}

\* FileCategorizer.__init__: the reverse mapping; a later assignment to the
\* same key replaces an earlier one
ExtensionToCategory ==
    LET keys == UNION {{Lower(e) : e \in Range(CATEGORIES[i].extensions)} : i \in 1..Len(CATEGORIES)}
        Last(k) == CHOOSE i \in 1..Len(CATEGORIES) :
                      /\ k \in {Lower(e) : e \in Range(CATEGORIES[i].extensions)}
                      /\ \A j \in (i+1)..Len(CATEGORIES) :
                            k \notin {Lower(e) : e \in Range(CATEGORIES[j].extensions)}
    IN [k \in keys |-> CATEGORIES[Last(k)].category]

\* a categorizer that compares the suffix as written, without normalising its case
GetCategoryCaseSensitive(name) ==
    LET extension == Suffix(name)
    IN IF extension \in DOMAIN ExtensionToCategory
       THEN ExtensionToCategory[extension] ELSE Others

\* a categorizer whose lookup has no default: an unknown extension gives no label
GetCategoryNoDefault(name) ==
    LET extension == Lower(Suffix(name))
    IN IF extension \in DOMAIN ExtensionToCategory
       THEN ExtensionToCategory[extension] ELSE <<>>

\* a categorizer that looks at the first suffix of the name, not at the last
GetCategoryFirstSuffix(name) ==
    LET rest == Tail(name)
        first == IF \E i \in 1..Len(rest) : rest[i] = "."
                 THEN CHOOSE i \in 1..Len(rest) :
                         rest[i] = "." /\ \A j \in 1..(i - 1) : rest[j] # "."
                 ELSE 0
        after == IF first = 0 THEN <<>> ELSE SubSeq(rest, first + 1, Len(rest))
        next == IF \E i \in 1..Len(after) : after[i] = "."
                THEN CHOOSE i \in 1..Len(after) :
                        after[i] = "." /\ \A j \in 1..(i - 1) : after[j] # "."
                ELSE Len(after) + 1
        extension == IF first = 0 \/ after = <<>> THEN <<>>
                     ELSE Lower(<<".">> \o SubSeq(after, 1, next - 1))
    IN IF extension \in DOMAIN ExtensionToCategory
       THEN ExtensionToCategory[extension] ELSE Others

\* FileCategorizer.get_category, on the final component of the path
GetCategory(name) ==
    LET extension == Lower(Suffix(name))
    IN IF extension \in DOMAIN ExtensionToCategory
       THEN ExtensionToCategory[extension] ELSE Others

\* get_category(Path(s)) for a path string s
GetCategoryOfPath(s) == GetCategory(PathName(s))

----------------------------------------------------------------------------
(* The filesystem, os and shutil                                           *)

\* an entry: a directory or a regular file holding data.  The mode of a
\* directory says what the process may do with it: "rw" all (rwx), "ro" list
\* and search it (r-x), "list" list it only (r--), "none" nothing (---)
Dir == [kind |-> "dir", data |-> 0, mode |-> "rw"]
ReadOnlyDir == [kind |-> "dir", data |-> 0, mode |-> "ro"]
File(d) == [kind |-> "file", data |-> d, mode |-> "rw"]

Parent(p) == SubSeq(p, 1, Len(p) - 1)
Name(p) == p[Len(p)]

\* Path.exists()
Exists(f, p) == p = <<>> \/ p \in DOMAIN f

\* Path.is_dir()
IsDir(f, p) == p = <<>> \/ (p \in DOMAIN f /\ f[p].kind = "dir")

\* the process may not create, remove or rename entries of the directory d
ReadOnly(f, d) == d \in DOMAIN f /\ f[d].mode # "rw"

\* Path.is_file()
IsFile(f, p) == p \in DOMAIN f /\ f[p].kind = "file"

\* the filesystem with the directory d read-only, when d is a directory of it
WithReadOnly(f, d) ==
    [p \in DOMAIN f |-> IF p = d /\ f[p].kind = "dir" THEN ReadOnlyDir ELSE f[p]]

AllWritable(f) == \A p \in DOMAIN f : f[p].mode = "rw"

Remove(f, p) == [q \in DOMAIN f \ {p} |-> f[q]]
Put(f, p, e) == [q \in DOMAIN f \cup {p} |-> IF q = p THEN e ELSE f[q]]

\* the exceptions of the filesystem calls, by class: an OSError is named by
\* its errno, a shutil.Error by its message
OSErrors == {"ENOENT", "ENOTDIR", "EISDIR", "EINVAL", "ENOTEMPTY", "EACCES", "EEXIST"}
PermissionErrors == {"EACCES"}
ShutilErrors == {"SameFileError", "Destination path already exists",
                 "Cannot move a directory into itself"}

\* os.mkdir(p): the errno, or "" on success
MkdirError(f, p) ==
    IF Exists(f, p) THEN "EEXIST"
    ELSE IF ~Exists(f, Parent(p)) THEN "ENOENT"
    ELSE IF ~IsDir(f, Parent(p)) THEN "ENOTDIR"
    ELSE IF ReadOnly(f, Parent(p)) THEN "EACCES"
    ELSE ""

\* a mkdir without exist_ok: the error of os.mkdir is raised also when the
\* path already is a directory
MkdirNotExistOk(f, p) ==
    IF MkdirError(f, p) = "" THEN [ok |-> TRUE, fs |-> Put(f, p, Dir), error |-> ""]
    ELSE [ok |-> FALSE, fs |-> f, error |-> MkdirError(f, p)]

\* Path.mkdir(exist_ok=True): os.mkdir, and an OSError is swallowed only when
\* the path already is a directory; error is the exception raised, "" if none
Mkdir(f, p) ==
    IF MkdirError(f, p) = "" THEN [ok |-> TRUE, fs |-> Put(f, p, Dir), error |-> ""]
    ELSE IF IsDir(f, p) THEN [ok |-> TRUE, fs |-> f, error |-> ""]
    ELSE [ok |-> FALSE, fs |-> f, error |-> MkdirError(f, p)]

\* the entries below the directory d
IsUnder(p, d) == Len(p) > Len(d) /\ SubSeq(p, 1, Len(d)) = d
Tree(f, d) == {p \in DOMAIN f : p = d \/ IsUnder(p, d)}
Rebase(p, src, dst) == dst \o SubSeq(p, Len(src) + 1, Len(p))

\* the filesystem with a copy of the tree at src placed at dst
CopyTree(f, src, dst) ==
    LET copies == {Rebase(p, src, dst) : p \in Tree(f, src)}
    IN [q \in DOMAIN f \cup copies |->
          IF q \in copies
          THEN f[CHOOSE p \in Tree(f, src) : Rebase(p, src, dst) = q]
          ELSE f[q]]

\* the filesystem without the tree at src
RemoveTree(f, src) == [q \in DOMAIN f \ Tree(f, src) |-> f[q]]

\* os.rename(src, dst): the errno, or "" on success.  Both parent directories
\* must be writable, and so must a directory that moves to another parent.
RenameError(f, src, dst) ==
    IF ~Exists(f, src) THEN "ENOENT"
    ELSE IF ~Exists(f, Parent(dst)) THEN "ENOENT"
    ELSE IF ~IsDir(f, Parent(dst)) THEN "ENOTDIR"
    ELSE IF IsFile(f, src) /\ IsDir(f, dst) THEN "EISDIR"
    ELSE IF IsDir(f, src) /\ IsFile(f, dst) THEN "ENOTDIR"
    ELSE IF IsDir(f, src) /\ (dst = src \/ IsUnder(dst, src)) THEN "EINVAL"
    ELSE IF IsDir(f, src) /\ IsDir(f, dst) /\ Tree(f, dst) # {dst} THEN "ENOTEMPTY"
    ELSE IF ReadOnly(f, Parent(src)) \/ ReadOnly(f, Parent(dst)) THEN "EACCES"
    ELSE IF IsDir(f, src) /\ ReadOnly(f, src) /\ Parent(src) # Parent(dst) THEN "EACCES"
    ELSE ""

\* a rename that leaves the source in place
RenamedKeepingSource(f, src, dst) == CopyTree(RemoveTree(f, dst), src, dst)

\* the filesystem after a successful os.rename(src, dst)
Renamed(f, src, dst) == RemoveTree(CopyTree(RemoveTree(f, dst), src, dst), src)

\* shutil.copy2(src, dst) of a regular file onto a path that is no directory:
\* the errno, or "" on success
CopyError(f, src, dst) ==
    IF src = dst THEN "SameFileError"
    ELSE IF ~Exists(f, src) THEN "ENOENT"
    ELSE IF ~Exists(f, Parent(dst)) THEN "ENOENT"
    ELSE IF ~IsDir(f, Parent(dst)) THEN "ENOTDIR"
    ELSE IF ~Exists(f, dst) /\ ReadOnly(f, Parent(dst)) THEN "EACCES"
    ELSE ""

\* shutil.copytree(src, dst) of a directory: the errno, or "" on success
CopyTreeError(f, src, dst) ==
    IF Exists(f, dst) THEN "EEXIST"
    ELSE IF ~Exists(f, Parent(dst)) THEN "ENOENT"
    ELSE IF ~IsDir(f, Parent(dst)) THEN "ENOTDIR"
    ELSE IF ReadOnly(f, Parent(dst)) THEN "EACCES"
    ELSE ""

\* shutil.move when os.rename failed and src is a regular file or missing:
\* copy2(src, real_dst), then os.unlink(src); the copy stays when unlink fails
MoveByCopy(f, src, real_dst) ==
    IF CopyError(f, src, real_dst) # ""
    THEN [ok |-> FALSE, fs |-> f, error |-> CopyError(f, src, real_dst)]
    ELSE IF ReadOnly(f, Parent(src))
    THEN [ok |-> FALSE, fs |-> Put(f, real_dst, f[src]), error |-> "EACCES"]
    ELSE [ok |-> TRUE, fs |-> Put(Remove(f, src), real_dst, f[src]), error |-> ""]

\* shutil.move when os.rename failed and src is a directory: copytree(src,
\* real_dst), then rmtree(src), which removes the entries of src and then src
MoveByCopyTree(f, src, dst, real_dst) ==
    IF dst = src \/ IsUnder(dst, src)
    THEN [ok |-> FALSE, fs |-> f, error |-> "Cannot move a directory into itself"]
    ELSE IF CopyTreeError(f, src, real_dst) # ""
    THEN [ok |-> FALSE, fs |-> f, error |-> CopyTreeError(f, src, real_dst)]
    ELSE LET copied == CopyTree(f, src, real_dst)
         IN IF \E d \in Tree(f, src) : ReadOnly(f, d) /\ (\E p \in DOMAIN f : Parent(p) = d)
            THEN [ok |-> FALSE, fs |-> copied, error |-> "EACCES"]
            ELSE IF ReadOnly(f, Parent(src))
            THEN [ok |-> FALSE, fs |-> Put(RemoveTree(copied, src), src, f[src]),
                  error |-> "EACCES"]
            ELSE [ok |-> TRUE, fs |-> RemoveTree(copied, src), error |-> ""]

\* shutil.move(src, dst): rename, and when rename fails, copy and delete.  The
\* filesystem may have changed also when the call raises.
ShutilMove(f, src, dst) ==
    LET real_dst == IF IsDir(f, dst) /\ dst # <<>> THEN Append(dst, Name(src)) ELSE dst
    IN IF IsDir(f, dst) /\ src = dst
       THEN [ok |-> TRUE, fs |-> f, error |-> ""]
       ELSE IF IsDir(f, dst) /\ Exists(f, real_dst)
       THEN [ok |-> FALSE, fs |-> f, error |-> "Destination path already exists"]
       ELSE IF RenameError(f, src, real_dst) = ""
       THEN [ok |-> TRUE, fs |-> Renamed(f, src, real_dst), error |-> ""]
       ELSE IF IsDir(f, src)
       THEN MoveByCopyTree(f, src, dst, real_dst)
       ELSE MoveByCopy(f, src, real_dst)

----------------------------------------------------------------------------
(* mover.py                                                                *)

NoError == "None"

\* a create_category_folder whose except clause names PermissionError alone
CreateCategoryFolderCatchingPermission(f, desktop_path, category) ==
    LET m == Mkdir(f, Append(desktop_path, category))
    IN IF m.error = "" THEN [ok |-> TRUE, fs |-> m.fs, raised |-> NoError]
       ELSE IF m.error \in PermissionErrors
       THEN [ok |-> FALSE, fs |-> m.fs, raised |-> NoError]
       ELSE [ok |-> FALSE, fs |-> m.fs, raised |-> m.error]

\* FileMover.create_category_folder: ok is the value returned; raised is the
\* exception that leaves the call, NoError when it returns
CreateCategoryFolder(f, desktop_path, category) ==
    LET m == Mkdir(f, Append(desktop_path, category))
    IN IF m.error = "" THEN [ok |-> TRUE, fs |-> m.fs, raised |-> NoError]
       ELSE IF m.error \in OSErrors \cup PermissionErrors
       THEN [ok |-> FALSE, fs |-> m.fs, raised |-> NoError]
       ELSE [ok |-> FALSE, fs |-> m.fs, raised |-> m.error]

\* the f-string of the renamed file: "{stem}_{counter}{suffix}"
NewName(stem, counter, suffix) == stem \o <<"_">> \o DecStr(counter) \o suffix

\* the while loop of resolve_name_conflict, entered with counter
RECURSIVE ProbeFrom(_, _, _, _, _)
ProbeFrom(f, parent, stem, suffix, counter) ==
    LET new_path == Append(parent, NewName(stem, counter, suffix))
    IN IF ~Exists(f, new_path) THEN new_path
       ELSE ProbeFrom(f, parent, stem, suffix, counter + 1)

\* the number of times the loop of resolve_name_conflict tests new_path.exists()
RECURSIVE ProbeCount(_, _, _, _, _)
ProbeCount(f, parent, stem, suffix, counter) ==
    IF ~Exists(f, Append(parent, NewName(stem, counter, suffix))) THEN 1
    ELSE 1 + ProbeCount(f, parent, stem, suffix, counter + 1)

\* the number of existence tests of resolve_name_conflict(destination)
ExistenceTests(f, destination) ==
    IF ~Exists(f, destination) THEN 1
    ELSE 1 + ProbeCount(f, Parent(destination), Stem(Name(destination)),
                        Suffix(Name(destination)), 1)

\* a resolver that checks nothing and returns the destination as given
ResolveNoCheck(f, destination) == destination

\* a resolver that always appends a suffix, starting at 1
ResolveAlwaysSuffix(f, destination) ==
    ProbeFrom(f, Parent(destination), Stem(Name(destination)), Suffix(Name(destination)), 1)

\* a resolver that tries the suffix 1 and no other
ResolveOnce(f, destination) ==
    IF ~Exists(f, destination) THEN destination
    ELSE Append(Parent(destination),
                NewName(Stem(Name(destination)), 1, Suffix(Name(destination))))

\* FileMover.resolve_name_conflict
ResolveNameConflict(f, destination) ==
    IF ~Exists(f, destination) THEN destination
    ELSE ProbeFrom(f, Parent(destination), Stem(Name(destination)), Suffix(Name(destination)), 1)

\* what the caller holds when move_file raised instead of returning
NoResult == [success |-> FALSE, source |-> <<>>, destination |-> <<>>, error |-> NoError]

\* a move_file whose except clause names PermissionError alone
MoveFileCatchingPermission(f, source, destination_folder) ==
    LET destination == ResolveNameConflict(f, Append(destination_folder, Name(source)))
        m == ShutilMove(f, source, destination)
    IN IF m.ok
       THEN [result |-> [success |-> TRUE, source |-> source,
                         destination |-> destination, error |-> NoError],
             fs |-> m.fs, raised |-> NoError]
       ELSE IF m.error \in PermissionErrors
       THEN [result |-> [success |-> FALSE, source |-> source,
                         destination |-> Append(destination_folder, Name(source)),
                         error |-> m.error],
             fs |-> m.fs, raised |-> NoError]
       ELSE [result |-> NoResult, fs |-> m.fs, raised |-> m.error]

\* FileMover.move_file: the MoveResult and the filesystem after the call;
\* raised is the exception that leaves the call, NoError when it returns
MoveFile(f, source, destination_folder) ==
    LET destination == ResolveNameConflict(f, Append(destination_folder, Name(source)))
        m == ShutilMove(f, source, destination)
    IN IF m.ok
       THEN [result |-> [success |-> TRUE, source |-> source,
                         destination |-> destination, error |-> NoError],
             fs |-> m.fs, raised |-> NoError]
       ELSE IF m.error \in OSErrors \cup PermissionErrors \cup ShutilErrors
       THEN [result |-> [success |-> FALSE, source |-> source,
                         destination |-> Append(destination_folder, Name(source)),
                         error |-> m.error],
             fs |-> m.fs, raised |-> NoError]
       ELSE [result |-> NoResult, fs |-> m.fs, raised |-> m.error]

\* what the caller of a mover operation has seen: the arguments of the call,
\* the value returned and the exception raised
Called(op, args, returned, raised) ==
    [op |-> op, args |-> args, returned |-> returned, raised |-> raised]

----------------------------------------------------------------------------
(* service.py                                                              *)

\* a Python dict: the keys in insertion order and the value of each key
EmptyDict == [keys |-> <<>>, val |-> <<>>]
HasKey(d, k) == k \in DOMAIN d.val
DictSet(d, k, v) ==
    [keys |-> IF HasKey(d, k) THEN d.keys ELSE Append(d.keys, k),
     val |-> [x \in DOMAIN d.val \cup {k} |-> IF x = k THEN v ELSE d.val[x]]]

\* the loop of create_organization_plan over files[i..], starting from the
\* groups built so far
RECURSIVE GroupFrom(_, _, _)
GroupFrom(fl, i, files_by_category) ==
    IF i > Len(fl) THEN files_by_category
    ELSE LET file_info == fl[i]
             category == GetCategory(Name(file_info.path))
             d == IF HasKey(files_by_category, category) THEN files_by_category
                  ELSE DictSet(files_by_category, category, <<>>)
         IN GroupFrom(fl, i + 1, DictSet(d, category, Append(d.val[category], file_info)))

\* a grouping that starts the list of the category anew for every file
RECURSIVE GroupFromOverwriting(_, _, _)
GroupFromOverwriting(fl, i, files_by_category) ==
    IF i > Len(fl) THEN files_by_category
    ELSE LET file_info == fl[i]
             category == GetCategory(Name(file_info.path))
         IN GroupFromOverwriting(fl, i + 1,
                DictSet(files_by_category, category, <<file_info>>))

\* a plan built by the grouping that starts the list anew for every file
PlanOverwritingGroups(fl) ==
    LET files_by_category == GroupFromOverwriting(fl, 1, EmptyDict)
    IN [files_by_category |-> files_by_category,
        folders_to_create |-> files_by_category.keys,
        total_files |-> Len(fl)]

\* a plan whose folders are the six table categories and Others, whatever the files
PlanWithFixedFolders(fl) ==
    LET files_by_category == GroupFrom(fl, 1, EmptyDict)
    IN [files_by_category |-> files_by_category,
        folders_to_create |-> [i \in 1..Len(CATEGORIES) |-> CATEGORIES[i].category]
                                  \o <<Others>>,
        total_files |-> Len(fl)]

\* DesktopCleanerService.create_organization_plan
CreateOrganizationPlan(fl) ==
    LET files_by_category == GroupFrom(fl, 1, EmptyDict)
    IN [files_by_category |-> files_by_category,
        folders_to_create |-> files_by_category.keys,
        total_files |-> Len(fl)]

\* the error strings of execute_plan
FolderError(category) == [kind |-> "Failed to create folder for category", what |-> category, cause |-> ""]
MoveError(name, error) == [kind |-> "Failed to move", what |-> name, cause |-> error]

\* a folder loop that creates the folder beside the base directory
FolderLoopBodyBesideBase(e, f, desktop_path, category) ==
    LET c == CreateCategoryFolder(f, Parent(desktop_path), category)
    IN [ex |-> [e EXCEPT !.errors = IF c.ok THEN @ ELSE Append(@, FolderError(category)),
                         !.folders = Append(@, [category |-> category, success |-> c.ok]),
                         !.ci = @ + 1],
        fs |-> c.fs]

\* a folder loop that records no error when the creation fails
FolderLoopBodySilent(e, f, desktop_path, category) ==
    LET c == CreateCategoryFolder(f, desktop_path, category)
    IN [ex |-> [e EXCEPT !.folders = Append(@, [category |-> category, success |-> c.ok]),
                         !.ci = @ + 1],
        fs |-> c.fs]

\* body of the folder loop of execute_plan for one category: the locals and
\* the filesystem after it
FolderLoopBody(e, f, desktop_path, category) ==
    LET c == CreateCategoryFolder(f, desktop_path, category)
    IN [ex |-> [e EXCEPT !.errors = IF c.ok THEN @ ELSE Append(@, FolderError(category)),
                         !.folders = Append(@, [category |-> category, success |-> c.ok]),
                         !.ci = @ + 1],
        fs |-> c.fs]

\* the bookkeeping of the inner loop that stops the category at its first failure
AfterMoveStopOnFailure(e, category, file_info, result, existed) ==
    [e EXCEPT !.moved_count = IF result.success THEN @ + 1 ELSE @,
              !.total_moved = IF result.success THEN @ + 1 ELSE @,
              !.errors = IF result.success THEN @
                         ELSE Append(@, MoveError(file_info.name, result.error)),
              !.attempts = Append(@, [ci |-> e.ci, fi |-> e.fi, category |-> category,
                                      path |-> file_info.path, success |-> result.success,
                                      existed |-> existed]),
              !.fi = IF result.success THEN @ + 1 ELSE 1000]

\* the bookkeeping of the inner loop that counts a failed move in the category
AfterMoveCountingFailures(e, category, file_info, result, existed) ==
    [e EXCEPT !.moved_count = @ + 1,
              !.total_moved = IF result.success THEN @ + 1 ELSE @,
              !.errors = IF result.success THEN @
                         ELSE Append(@, MoveError(file_info.name, result.error)),
              !.attempts = Append(@, [ci |-> e.ci, fi |-> e.fi, category |-> category,
                                      path |-> file_info.path, success |-> result.success,
                                      existed |-> existed]),
              !.fi = @ + 1]

\* the bookkeeping of the inner loop that counts every move as moved
AfterMoveCountingAll(e, category, file_info, result, existed) ==
    [e EXCEPT !.moved_count = @ + 1,
              !.total_moved = @ + 1,
              !.errors = IF result.success THEN @
                         ELSE Append(@, MoveError(file_info.name, result.error)),
              !.attempts = Append(@, [ci |-> e.ci, fi |-> e.fi, category |-> category,
                                      path |-> file_info.path, success |-> result.success,
                                      existed |-> existed]),
              !.fi = @ + 1]

\* the bookkeeping of the inner loop that puts a new error first in the list
AfterMovePrependingErrors(e, category, file_info, result, existed) ==
    [e EXCEPT !.moved_count = IF result.success THEN @ + 1 ELSE @,
              !.total_moved = IF result.success THEN @ + 1 ELSE @,
              !.errors = IF result.success THEN @
                         ELSE <<MoveError(file_info.name, result.error)>> \o @,
              !.attempts = Append(@, [ci |-> e.ci, fi |-> e.fi, category |-> category,
                                      path |-> file_info.path, success |-> result.success,
                                      existed |-> existed]),
              !.fi = @ + 1]

\* body of the inner loop of execute_plan after move_file returned: the
\* counters, the error list and (as a trace) the attempt
AfterMove(e, category, file_info, result, existed) ==
    [e EXCEPT !.moved_count = IF result.success THEN @ + 1 ELSE @,
              !.total_moved = IF result.success THEN @ + 1 ELSE @,
              !.errors = IF result.success THEN @
                         ELSE Append(@, MoveError(file_info.name, result.error)),
              !.attempts = Append(@, [ci |-> e.ci, fi |-> e.fi, category |-> category,
                                      path |-> file_info.path, success |-> result.success,
                                      existed |-> existed]),
              !.fi = @ + 1]

----------------------------------------------------------------------------
(* scanner.py                                                              *)

\* the filesystem with the directory d in the given mode, when d is a directory
WithMode(f, d, mode) ==
    [p \in DOMAIN f |-> IF p = d /\ f[p].kind = "dir" THEN [f[p] EXCEPT !.mode = mode]
                        ELSE f[p]]

\* an access check that lets every caller pass
ReadableAlways(f, p) == TRUE

\* os.access(p, os.R_OK)
Readable(f, p) == p \in DOMAIN f /\ f[p].mode \in {"rw", "ro", "list"}

\* the process may look up the entries of the directory d
Searchable(f, d) == d = <<>> \/ (d \in DOMAIN f /\ f[d].mode \in {"rw", "ro"})

\* os.stat(p): the errno, or "" on success
StatError(f, p) ==
    IF Parent(p) # <<>> /\ Parent(p) \notin DOMAIN f THEN "ENOENT"
    ELSE IF Parent(p) # <<>> /\ f[Parent(p)].kind = "file" THEN "ENOTDIR"
    ELSE IF ~Searchable(f, Parent(p)) THEN "EACCES"
    ELSE IF p \notin DOMAIN f THEN "ENOENT"
    ELSE ""

\* os.listdir(d): the errno, or "" on success
ListdirError(f, d) ==
    IF d \notin DOMAIN f THEN "ENOENT"
    ELSE IF f[d].kind = "file" THEN "ENOTDIR"
    ELSE IF ~Readable(f, d) THEN "EACCES"
    ELSE ""

\* the exception class of an errno
ExceptionOf(errno) ==
    IF errno = "ENOENT" THEN "FileNotFoundError"
    ELSE IF errno = "EACCES" THEN "PermissionError"
    ELSE IF errno = "ENOTDIR" THEN "NotADirectoryError"
    ELSE "OSError"

\* the errors of stat that pathlib's exists(), is_dir() and is_file() answer
\* with False; any other error is raised
IgnoredErrors == {"ENOENT", "ENOTDIR"}

\* Path.exists(), Path.is_dir(), Path.is_file(): the value, and the exception
\* raised instead of a value
PathExists(f, p) ==
    LET e == StatError(f, p)
    IN IF e = "" THEN [value |-> TRUE, raised |-> NoError]
       ELSE IF e \in IgnoredErrors THEN [value |-> FALSE, raised |-> NoError]
       ELSE [value |-> FALSE, raised |-> ExceptionOf(e)]
PathIsDir(f, p) ==
    LET e == StatError(f, p)
    IN IF e = "" THEN [value |-> f[p].kind = "dir", raised |-> NoError]
       ELSE IF e \in IgnoredErrors THEN [value |-> FALSE, raised |-> NoError]
       ELSE [value |-> FALSE, raised |-> ExceptionOf(e)]
PathIsFile(f, p) ==
    LET e == StatError(f, p)
    IN IF e = "" THEN [value |-> f[p].kind = "file", raised |-> NoError]
       ELSE IF e \in IgnoredErrors THEN [value |-> FALSE, raised |-> NoError]
       ELSE [value |-> FALSE, raised |-> ExceptionOf(e)]

DesktopIni == <<"d","e","s","k","t","o","p",".","i","n","i">>

\* a should_exclude that compares the name as written with "desktop.ini"
ShouldExcludeExactName(f, file_path) ==
    LET d == PathIsDir(f, file_path)
    IN IF d.raised # NoError THEN [value |-> FALSE, raised |-> d.raised]
       ELSE IF d.value THEN [value |-> TRUE, raised |-> NoError]
       ELSE IF Name(file_path) = DesktopIni THEN [value |-> TRUE, raised |-> NoError]
       ELSE IF Name(file_path) # <<>> /\ Head(Name(file_path)) = "."
       THEN [value |-> TRUE, raised |-> NoError]
       ELSE [value |-> FALSE, raised |-> NoError]

\* DesktopScanner.should_exclude, where os.name is not 'nt': the value, and
\* the exception raised instead of a value
ShouldExclude(f, file_path) ==
    LET d == PathIsDir(f, file_path)
    IN IF d.raised # NoError THEN [value |-> FALSE, raised |-> d.raised]
       ELSE IF d.value THEN [value |-> TRUE, raised |-> NoError]
       ELSE IF Lower(Name(file_path)) = DesktopIni THEN [value |-> TRUE, raised |-> NoError]
       ELSE IF Name(file_path) # <<>> /\ Head(Name(file_path)) = "."
       THEN [value |-> TRUE, raised |-> NoError]
       ELSE [value |-> FALSE, raised |-> NoError]

\* a record whose extension is the suffix as written
ScannedFileInfoRawSuffix(f, item) ==
    [path |-> item, name |-> Name(item),
     extension |-> Suffix(Name(item)), size |-> f[item].data]

\* the FileInfo scan_desktop builds for an item; the size is what stat reports
ScannedFileInfo(f, item) ==
    [path |-> item, name |-> Name(item),
     extension |-> Lower(Suffix(Name(item))), size |-> f[item].data]

----------------------------------------------------------------------------
(* Values of the variables a specification does not use                    *)

NoPlan == [files_by_category |-> EmptyDict,
           folders_to_create |-> <<>>, total_files |-> 0]
\* returned is the set of the values returned (none, or the list); checks,
\* iterated and removed are a trace: the checks made on the directory, the
\* items the loop took up, and the entries another process removed meanwhile
NoScan == [pc |-> "idle", pending |-> {}, item |-> <<>>, files |-> <<>>,
           raised |-> "None", returned |-> {},
           checks |-> <<>>, iterated |-> {}, removed |-> {}]
NoMain == [pc |-> "idle", driver |-> "none", confirmed |-> {}, asked |-> 0,
           run |-> 0, history |-> <<>>]
NoRace == [movers |-> <<>>, writes |-> 0]
NoExec == [errors |-> <<>>, moved_by_category |-> EmptyDict,
           total_moved |-> 0, ci |-> 0, fi |-> 0, moved_count |-> 0,
           folders |-> <<>>, attempts |-> <<>>]

CatIdle == catIn = <<>> /\ catOut = <<>>
MoverIdle == results = <<>> /\ calls = <<>>
ServiceIdle == pc = "idle" /\ files = <<>> /\ plan = NoPlan /\ ex = NoExec
ScanIdle == scan = NoScan
MainIdle == main = NoMain
RaceIdle == race = NoRace
FsIdle == fs = <<>> /\ fs0 = <<>>

----------------------------------------------------------------------------
(* Categorizer alone: get_category on the path "test." + s                 *)

Alphabet == {"g", "i", "f", "z", "G", "I", DotlessI, ".", "/"}
AsciiAlphabet == Alphabet \ {DotlessI}

Strings == UNION {[1..n -> Alphabet] : n \in 0..MaxStrLen}

\* the extensions the tests of the category mappings list for a category
ListedExtensions(category) ==
    IF category = Documents THEN
        {<<".","d","o","c">>, <<".","d","o","c","x">>, <<".","t","x","t">>, <<".","r","t","f">>, <<".","o","d","t">>, <<".","x","l","s">>, <<".","x","l","s","x">>, <<".","p","p","t">>, <<".","p","p","t","x">>}
    ELSE
    IF category = Images THEN
        {<<".","j","p","g">>, <<".","j","p","e","g">>, <<".","p","n","g">>, <<".","g","i","f">>, <<".","b","m","p">>, <<".","s","v","g">>, <<".","i","c","o">>, <<".","w","e","b","p">>}
    ELSE
    IF category = Videos THEN
        {<<".","m","p","4">>, <<".","a","v","i">>, <<".","m","k","v">>, <<".","m","o","v">>, <<".","w","m","v">>, <<".","f","l","v">>, <<".","w","e","b","m">>}
    ELSE
    IF category = PDF THEN
        {<<".","p","d","f">>}
    ELSE
    IF category = ZIPs THEN
        {<<".","z","i","p">>, <<".","r","a","r">>, <<".","7","z">>, <<".","t","a","r">>, <<".","g","z">>}
    ELSE
    IF category = Installers THEN
        {<<".","e","x","e">>, <<".","m","s","i">>, <<".","d","m","g">>, <<".","p","k","g">>}
    ELSE {}

\* str.capitalize() of an ASCII word: the first character in upper case
Capitalize(s) == IF s = <<>> THEN s ELSE <<UpperChar(s[1])>> \o Tail(s)

\* what follows "test." in the paths of the mapping tests: every listed
\* extension in lower case, in upper case, capitalized, after another suffix
\* and before another character
TableInputs ==
    UNION {{Tail(e), Upper(Tail(e)), Capitalize(Tail(e)),
            <<"g","z",".">> \o Tail(e), Tail(e) \o <<"x">>} :
              e \in UNION {ListedExtensions(c) : c \in CategoryLabels}}

TestDot == <<"t","e","s","t",".">>

CatInit ==
    /\ catIn \in Strings \cup TableInputs
    /\ catOut = <<>>
    /\ FsIdle /\ MoverIdle /\ ServiceIdle /\ ScanIdle /\ MainIdle /\ RaceIdle

\* get_category of the path, of its upper-case and of its lower-case form
Categorize ==
    /\ catOut = <<>>
    /\ catOut' = [plain |-> GetCategoryOfPath(TestDot \o catIn),
                  upper |-> GetCategoryOfPath(Upper(TestDot \o catIn)),
                  lower |-> GetCategoryOfPath(Lower(TestDot \o catIn))]
    /\ UNCHANGED <<catIn, fs, fs0, results, calls, pc, files, plan, ex, scan, main, race>>

CatNext == Categorize

SpecCat == CatInit /\ [][CatNext]_vars

----------------------------------------------------------------------------
(* Mover alone: one caller moving files from source folders into Dest      *)

Dest == << <<"d","e","s","t">> >>
SourceDir(i) == << <<"s">> \o DecStr(i) >>

A_gz == <<"a",".","g","z">>
A_1_gz == <<"a","_","1",".","g","z">>
A_2_gz == <<"a","_","2",".","g","z">>

\* names Dest may hold before the first move; the file named n holds OldData(n)
DestNames == {A_gz, A_1_gz, A_2_gz}
OldData(n) == 100 + Len(n)

\* the files the caller moves: a.gz of every source folder, and a_1.gz of the first
Sources ==
    {Append(SourceDir(i), A_gz) : i \in 1..NumSources} \cup {Append(SourceDir(1), A_1_gz)}
SourceData(p) == IF Name(p) = A_gz THEN CHOOSE i \in 1..NumSources : p[1] = SourceDir(i)[1]
                 ELSE 0

SourceTree ==
    [p \in {SourceDir(i) : i \in 1..NumSources} \cup Sources |->
        IF p \in Sources THEN File(SourceData(p)) ELSE Dir]

\* Dest as a directory holding the names of S
DestTree(S) ==
    [p \in {Dest} \cup {Append(Dest, n) : n \in S} |->
        IF p = Dest THEN Dir ELSE File(OldData(Name(p)))]

MoverInit ==
    /\ \E t \in {DestTree(S) : S \in SUBSET DestNames}
                 \cup {<<>>, [p \in {Dest} |-> File(7)]} :
       \E d \in {<<>>, Dest, SourceDir(1)} :
          fs = WithReadOnly([p \in DOMAIN SourceTree \cup DOMAIN t |->
                                IF p \in DOMAIN t THEN t[p] ELSE SourceTree[p]], d)
    /\ fs0 = fs
    /\ results = <<>> /\ calls = <<>>
    /\ CatIdle /\ ServiceIdle /\ ScanIdle /\ MainIdle /\ RaceIdle

\* the caller calls move_file(source, Dest)
CallMoveFile ==
    /\ Len(results) < MaxMoves
    /\ \E source \in Sources :
          LET m == MoveFile(fs, source, Dest)
          IN /\ fs' = m.fs
             /\ results' = Append(results, m.result)
             /\ calls' = Append(calls, Called("move_file", <<source, Dest>>,
                                              m.result, m.raised))
    /\ UNCHANGED <<catIn, catOut, fs0, pc, files, plan, ex, scan, main, race>>

MoverNext == CallMoveFile

SpecMover == MoverInit /\ [][MoverNext]_vars

----------------------------------------------------------------------------
(* Mover alone: one caller creating category folders in a base directory   *)

Desktop == << <<"D","e","s","k","t","o","p">> >>

\* a base directory whose parents do not exist
InvalidPath == << <<"n","o","n","e","x","i","s","t","e","n","t">>,
                  <<"i","n","v","a","l","i","d">>,
                  <<"p","a","t","h">> >>

FolderCategories == {ZIPs, Images}

\* what the base directory may hold under the name of a category before the
\* calls: nothing, a regular file, an empty directory, a directory with a file
FolderEntryKinds == {"none", "file", "dir", "full"}

\* the base directory, with the entry of kind k[c] under the name of category c
BaseTree(k) ==
    LET held == {c \in FolderCategories : k[c] # "none"}
        inner == {c \in FolderCategories : k[c] = "full"}
    IN [p \in {Desktop} \cup {Append(Desktop, c) : c \in held}
                        \cup {<<Desktop[1], c, <<"a",".","g","z">> >> : c \in inner} |->
          IF Len(p) = 1 THEN Dir
          ELSE IF Len(p) = 3 THEN File(1)
          ELSE IF k[Name(p)] = "file" THEN File(7) ELSE Dir]

FolderInit ==
    /\ \E t \in {BaseTree(k) : k \in [FolderCategories -> FolderEntryKinds]}
                 \cup {<<>>, [p \in {Desktop} |-> File(7)]} :
       \E d \in {<<>>, Desktop} :
          fs = WithReadOnly(t, d)
    /\ fs0 = fs
    /\ results = <<>> /\ calls = <<>>
    /\ CatIdle /\ ServiceIdle /\ ScanIdle /\ MainIdle /\ RaceIdle

\* the caller calls create_category_folder(desktop_path, category)
CallCreateCategoryFolder ==
    /\ Len(calls) < MaxCalls
    /\ \E desktop_path \in {Desktop, InvalidPath} : \E category \in FolderCategories :
          LET c == CreateCategoryFolder(fs, desktop_path, category)
          IN /\ fs' = c.fs
             /\ calls' = Append(calls, Called("create_category_folder",
                                              <<desktop_path, category>>, c.ok, c.raised))
    /\ UNCHANGED <<catIn, catOut, fs0, results, pc, files, plan, ex, scan, main, race>>

FolderNext == CallCreateCategoryFolder

SpecFolder == FolderInit /\ [][FolderNext]_vars

----------------------------------------------------------------------------
(* The service: a caller hands a list of FileInfo to create_organization_plan *)
(* and the plan to execute_plan, on a base directory Desktop                  *)

B_GIF == <<"b",".","G","I","F">>

\* names of regular files the base directory may hold; the third is a regular
\* file named like a category
DesktopNames == {A_gz, B_GIF, ZIPs}
DesktopData(n) == IF n = A_gz THEN 1 ELSE IF n = B_GIF THEN 2 ELSE 3

FileInfo(n) == [path |-> Append(Desktop, n), name |-> n,
                extension |-> Lower(Suffix(n)), size |-> 1]

\* a record whose extension field is not the suffix of its path
MislabelledRecord == [FileInfo(A_gz) EXCEPT !.extension = <<".","g","i","f">>]

\* the records a caller may hand over
FileRecords == {FileInfo(n) : n \in DesktopNames} \cup {MislabelledRecord}

\* the lists of FileInfo of at most k records
RECURSIVE ListsUpTo(_)
ListsUpTo(k) ==
    IF k = 0 THEN {<<>>}
    ELSE LET shorter == ListsUpTo(k - 1)
         IN shorter \cup {Append(l, r) : l \in shorter, r \in FileRecords}

\* the base directory holding the regular files named in S
DesktopTree(S) ==
    [p \in {Desktop} \cup {Append(Desktop, n) : n \in S} |->
        IF p = Desktop THEN Dir ELSE File(DesktopData(Name(p)))]

\* the folder ZIPs left by an earlier run, holding the names of S
ZipsFolder == Append(Desktop, ZIPs)
ZipsTree(S) ==
    [p \in {ZipsFolder} \cup {Append(ZipsFolder, n) : n \in S} |->
        IF p = ZipsFolder THEN Dir ELSE File(OldData(Name(p)))]

Init ==
    /\ \E S \in SUBSET DesktopNames :
       \E t \in {<<>>} \cup (IF ZIPs \in S THEN {} ELSE {ZipsTree({}), ZipsTree({A_gz})}) :
       \E d \in {<<>>, Desktop, ZipsFolder} :
          fs = WithReadOnly([p \in DOMAIN DesktopTree(S) \cup DOMAIN t |->
                                IF p \in DOMAIN t THEN t[p] ELSE DesktopTree(S)[p]], d)
    /\ fs0 = fs
    /\ pc = "start"
    /\ files = <<>> /\ plan = NoPlan /\ ex = NoExec
    /\ results = <<>> /\ calls = <<>>
    /\ CatIdle /\ ScanIdle /\ MainIdle /\ RaceIdle

\* the caller builds the list of FileInfo (of files that may or may not exist)
ProvideFiles ==
    /\ pc = "start"
    /\ files' \in ListsUpTo(MaxFiles)
    /\ pc' = "listed"
    /\ UNCHANGED <<catIn, catOut, fs, fs0, results, calls, plan, ex, scan, main, race>>

\* plan = service.create_organization_plan(files)
BuildPlan ==
    /\ pc = "listed"
    /\ plan' = CreateOrganizationPlan(files)
    /\ pc' = "planned"
    /\ UNCHANGED <<catIn, catOut, fs, fs0, results, calls, files, ex, scan, main, race>>

\* execute_plan is entered: errors = [], moved_by_category = {}, total_moved = 0
ExecStart ==
    /\ pc = "planned"
    /\ ex' = [NoExec EXCEPT !.ci = 1]
    /\ pc' = "folders"
    /\ UNCHANGED <<catIn, catOut, fs, fs0, results, calls, files, plan, scan, main, race>>

\* one iteration of "for category in plan.folders_to_create"
ExecCreateFolder ==
    /\ pc = "folders"
    /\ ex.ci <= Len(plan.folders_to_create)
    /\ LET b == FolderLoopBody(ex, fs, Desktop, plan.folders_to_create[ex.ci])
       IN ex' = b.ex /\ fs' = b.fs
    /\ UNCHANGED <<catIn, catOut, fs0, results, calls, pc, files, plan, scan, main, race>>

\* the folder loop is over; the loop over plan.files_by_category.items() begins
ExecFoldersDone ==
    /\ pc = "folders"
    /\ ex.ci > Len(plan.folders_to_create)
    /\ ex' = [ex EXCEPT !.ci = 1, !.fi = 1, !.moved_count = 0]
    /\ pc' = "moves"
    /\ UNCHANGED <<catIn, catOut, fs, fs0, results, calls, files, plan, scan, main, race>>

\* one iteration of "for file_info in files": move_file and its bookkeeping
ExecMoveFile ==
    /\ pc = "moves"
    /\ ex.ci <= Len(plan.files_by_category.keys)
    /\ LET category == plan.files_by_category.keys[ex.ci]
           list == plan.files_by_category.val[category]
       IN /\ ex.fi <= Len(list)
          /\ LET file_info == list[ex.fi]
                 m == MoveFile(fs, file_info.path, Append(Desktop, category))
             IN /\ fs' = m.fs
                /\ results' = Append(results, m.result)
                /\ calls' = Append(calls, Called("move_file",
                                      <<file_info.path, Append(Desktop, category)>>,
                                      m.result, m.raised))
                /\ ex' = AfterMove(ex, category, file_info, m.result,
                                   Exists(fs, file_info.path))
    /\ UNCHANGED <<catIn, catOut, fs0, pc, files, plan, scan, main, race>>

\* an end of the inner loop that records the count of a category only when a
\* file of it was moved
ExecEndCategorySkippingZero ==
    /\ pc = "moves"
    /\ ex.ci <= Len(plan.files_by_category.keys)
    /\ LET category == plan.files_by_category.keys[ex.ci]
       IN /\ ex.fi > Len(plan.files_by_category.val[category])
          /\ ex' = [ex EXCEPT !.moved_by_category =
                                  IF ex.moved_count > 0
                                  THEN DictSet(@, category, ex.moved_count) ELSE @,
                              !.ci = @ + 1, !.fi = 1, !.moved_count = 0]
    /\ UNCHANGED <<catIn, catOut, fs, fs0, results, calls, pc, files, plan, scan, main, race>>

\* the inner loop is over: moved_by_category[category] = moved_count, and the
\* next category starts with moved_count = 0
ExecEndCategory ==
    /\ pc = "moves"
    /\ ex.ci <= Len(plan.files_by_category.keys)
    /\ LET category == plan.files_by_category.keys[ex.ci]
       IN /\ ex.fi > Len(plan.files_by_category.val[category])
          /\ ex' = [ex EXCEPT !.moved_by_category = DictSet(@, category, ex.moved_count),
                              !.ci = @ + 1, !.fi = 1, !.moved_count = 0]
    /\ UNCHANGED <<catIn, catOut, fs, fs0, results, calls, pc, files, plan, scan, main, race>>

\* execute_plan returns the ExecutionResult
\* an execute_plan that returns only when it collected no error
ExecReturnOnlyWithoutErrors ==
    /\ pc = "moves"
    /\ ex.ci > Len(plan.files_by_category.keys)
    /\ ex.errors = <<>>
    /\ pc' = "done"
    /\ UNCHANGED <<catIn, catOut, fs, fs0, results, calls, files, plan, ex, scan, main, race>>

ExecReturn ==
    /\ pc = "moves"
    /\ ex.ci > Len(plan.files_by_category.keys)
    /\ pc' = "done"
    /\ UNCHANGED <<catIn, catOut, fs, fs0, results, calls, files, plan, ex, scan, main, race>>

Next ==
    \/ ProvideFiles
    \/ BuildPlan
    \/ ExecStart
    \/ ExecCreateFolder
    \/ ExecFoldersDone
    \/ ExecMoveFile
    \/ ExecEndCategory
    \/ ExecReturn

Spec == Init /\ [][Next]_vars

\* the inner loop of execute_plan has a record left to move: the enabling
\* condition of ExecMoveFile
MoveDue ==
    /\ pc = "moves"
    /\ ex.ci <= Len(plan.files_by_category.keys)
    /\ ex.fi <= Len(plan.files_by_category.val[plan.files_by_category.keys[ex.ci]])

\* the same program run to its end: the interpreter takes the next step of the
\* one thread as long as there is one, which is weak fairness of every step.
\* For BuildPlan and ExecMoveFile the definition of WF_vars is written out with
\* the enabling condition in the place of ENABLED.
SpecLive ==
    /\ Init /\ [][Next]_vars
    /\ WF_vars(ProvideFiles) /\ WF_vars(ExecStart) /\ WF_vars(ExecCreateFolder)
    /\ WF_vars(ExecFoldersDone) /\ WF_vars(ExecEndCategory) /\ WF_vars(ExecReturn)
    /\ ([]<>(pc # "listed") \/ []<><<BuildPlan>>_vars)
    /\ ([]<>(~MoveDue) \/ []<><<ExecMoveFile>>_vars)

----------------------------------------------------------------------------
(* The scanner: scan_desktop on the directory Desktop, while another process *)
(* may remove entries of it                                                  *)

Desktop_INI == <<"D","e","s","k","t","o","p",".","I","N","I">>
HiddenName == <<".","h">>

\* names of regular files the scanned directory may hold
ScanNames == {A_gz, B_GIF, Desktop_INI, HiddenName}

\* the scanned directory holding the regular files named in S and, under the
\* name ZIPs, nothing, a regular file or a folder with a file in it
ScanTree(S, zips) ==
    LET top == {Append(Desktop, n) : n \in S \cup (IF zips = "none" THEN {} ELSE {ZIPs})}
        inner == IF zips = "dir" THEN {Append(ZipsFolder, A_gz)} ELSE {}
    IN [p \in {Desktop} \cup top \cup inner |->
          IF p = Desktop THEN Dir
          ELSE IF p = ZipsFolder /\ zips = "dir" THEN Dir
          ELSE File(Len(Name(p)))]

ScanInit ==
    /\ \E t \in {ScanTree(S, z) : S \in SUBSET ScanNames, z \in {"none", "file", "dir"}}
                 \cup {<<>>, [p \in {Desktop} |-> File(7)]} :
       \E mode \in {"rw", "ro", "list", "none"} :
          fs = WithMode(t, Desktop, mode)
    /\ fs0 = fs
    /\ scan = [NoScan EXCEPT !.pc = "start"]
    /\ CatIdle /\ MoverIdle /\ ServiceIdle /\ MainIdle /\ RaceIdle

\* get_desktop_path: the directory must exist
ScanLocate ==
    /\ scan.pc = "start"
    /\ LET e == PathExists(fs, Desktop)
           s == [scan EXCEPT !.checks = Append(@, "exists")]
       IN scan' = IF e.raised # NoError THEN [s EXCEPT !.pc = "raised", !.raised = e.raised]
                  ELSE IF ~e.value
                  THEN [s EXCEPT !.pc = "raised", !.raised = "FileNotFoundError"]
                  ELSE [s EXCEPT !.pc = "access"]
    /\ UNCHANGED <<catIn, catOut, fs, fs0, results, calls, pc, files, plan, ex, main, race>>

\* if not os.access(desktop_path, os.R_OK): raise PermissionError
ScanAccess ==
    /\ scan.pc = "access"
    /\ LET s == [scan EXCEPT !.checks = Append(@, "access")]
       IN scan' = IF ~Readable(fs, Desktop)
                  THEN [s EXCEPT !.pc = "raised", !.raised = "PermissionError"]
                  ELSE [s EXCEPT !.pc = "listdir"]
    /\ UNCHANGED <<catIn, catOut, fs, fs0, results, calls, pc, files, plan, ex, main, race>>

\* desktop_path.iterdir() lists the directory when the loop starts; an
\* exception other than PermissionError leaves scan_desktop as it is
ScanListdir ==
    /\ scan.pc = "listdir"
    /\ LET e == ListdirError(fs, Desktop)
           s == [scan EXCEPT !.checks = Append(@, "listdir")]
       IN scan' = IF e # "" THEN [s EXCEPT !.pc = "raised", !.raised = ExceptionOf(e)]
                  ELSE [s EXCEPT !.pc = "loop",
                                 !.pending = {p \in DOMAIN fs : Parent(p) = Desktop}]
    /\ UNCHANGED <<catIn, catOut, fs, fs0, results, calls, pc, files, plan, ex, main, race>>

\* the loop takes up the next item: if self.should_exclude(item): continue
ScanShouldExclude ==
    /\ scan.pc = "loop"
    /\ \E item \in scan.pending :
          LET x == ShouldExclude(fs, item)
              s == [scan EXCEPT !.pending = @ \ {item}, !.item = item,
                                !.iterated = @ \cup {item}]
          IN scan' = IF x.raised # NoError
                     THEN [s EXCEPT !.pc = "raised", !.raised = x.raised]
                     ELSE IF x.value THEN s
                     ELSE [s EXCEPT !.pc = "is_file"]
    /\ UNCHANGED <<catIn, catOut, fs, fs0, results, calls, pc, files, plan, ex, main, race>>

\* if item.is_file():
ScanIsFile ==
    /\ scan.pc = "is_file"
    /\ LET x == PathIsFile(fs, scan.item)
       IN scan' = IF x.raised # NoError
                  THEN [scan EXCEPT !.pc = "raised", !.raised = x.raised]
                  ELSE IF x.value THEN [scan EXCEPT !.pc = "stat"]
                  ELSE [scan EXCEPT !.pc = "loop"]
    /\ UNCHANGED <<catIn, catOut, fs, fs0, results, calls, pc, files, plan, ex, main, race>>

\* FileInfo(..., size=item.stat().st_size) is appended; except OSError: continue
ScanStat ==
    /\ scan.pc = "stat"
    /\ scan' = IF StatError(fs, scan.item) # ""
               THEN [scan EXCEPT !.pc = "loop"]
               ELSE [scan EXCEPT !.pc = "loop",
                                 !.files = Append(@, ScannedFileInfo(fs, scan.item))]
    /\ UNCHANGED <<catIn, catOut, fs, fs0, results, calls, pc, files, plan, ex, main, race>>

\* the loop is over: return files
ScanReturn ==
    /\ scan.pc = "loop"
    /\ scan.pending = {}
    /\ scan' = [scan EXCEPT !.pc = "returned", !.returned = {scan.files}]
    /\ UNCHANGED <<catIn, catOut, fs, fs0, results, calls, pc, files, plan, ex, main, race>>

\* another process removes a regular file of the directory after it was listed
EnvRemoveEntry ==
    /\ scan.pc \in {"loop", "is_file", "stat"}
    /\ Cardinality(scan.removed) < MaxRemovals
    /\ \E p \in DOMAIN fs :
          /\ Parent(p) = Desktop /\ fs[p].kind = "file"
          /\ fs' = Remove(fs, p)
          /\ scan' = [scan EXCEPT !.removed = @ \cup {p}]
    /\ UNCHANGED <<catIn, catOut, fs0, results, calls, pc, files, plan, ex, main, race>>

ScanNext ==
    \/ ScanLocate
    \/ ScanAccess
    \/ ScanListdir
    \/ ScanShouldExclude
    \/ ScanIsFile
    \/ ScanStat
    \/ ScanReturn
    \/ EnvRemoveEntry

SpecScan == ScanInit /\ [][ScanNext]_vars

----------------------------------------------------------------------------
(* main(): scan, plan, prompt, execute; and the same steps driven without  *)
(* a prompt, as the integration tests drive them; either may be run again  *)

MaxAsks == 1        \* answers that are neither yes nor no before the user gives up
MaxRuns == 2        \* runs of the workflow on the same directory

\* str.strip(): leading and trailing whitespace removed
Whitespace == {" ", "\t", "\n"}
Strip(s) ==
    LET kept == {i \in 1..Len(s) : s[i] \notin Whitespace}
    IN IF kept = {} THEN <<>>
       ELSE SubSeq(s, CHOOSE i \in kept : \A j \in kept : i <= j,
                      CHOOSE i \in kept : \A j \in kept : i >= j)

\* lines the user may type at the prompt
Responses == {<<"y","e","s">>, <<"y">>, <<"n","o">>, <<"n">>, <<" ","Y"," ">>,
              <<"N","O","\n">>, <<"Y","e","s">>, <<>>, <<"o","k">>, <<"y","e","s","!">>}

\* one pass of the loop of request_confirmation: "True", "False", or "again"
\* when the loop asks once more
RequestConfirmation(line) ==
    LET response == Lower(Strip(line))
    IN IF response \in {<<"y","e","s">>, <<"y">>} THEN "True"
       ELSE IF response \in {<<"n","o">>, <<"n">>} THEN "False"
       ELSE "again"

\* a main() that goes on to execute_plan whatever the prompt returned
AfterConfirmationIgnoring(confirmed) == "execute"

\* if not confirmed: return; else execute_plan
AfterConfirmation(confirmed) == IF ~confirmed THEN "cancelled" ELSE "execute"

\* names of regular files the directory of main() may hold
MainNames == {A_gz, B_GIF, Desktop_INI}

MainInit ==
    /\ \E t \in {ScanTree(S, z) : S \in SUBSET MainNames, z \in {"none", "file", "dir"}}
                 \cup {<<>>} :
       \E mode \in {"rw", "ro"} :
          fs = WithMode(t, Desktop, mode)
    /\ fs0 = fs
    /\ scan = [NoScan EXCEPT !.pc = "start"]
    /\ \E d \in {"main", "pipeline"} :
          main = [NoMain EXCEPT !.pc = "scan", !.driver = d, !.run = 1]
    /\ CatIdle /\ MoverIdle /\ ServiceIdle /\ RaceIdle

\* the steps of scan_desktop, run by the workflow
MainScan ==
    /\ main.pc = "scan"
    /\ \/ ScanLocate \/ ScanAccess \/ ScanListdir \/ ScanShouldExclude
       \/ ScanIsFile \/ ScanStat \/ ScanReturn

\* the scan raised: main() prints the error and exits with status 1
MainScanRaised ==
    /\ main.pc = "scan"
    /\ scan.pc = "raised"
    /\ main' = [main EXCEPT !.pc = "exit1"]
    /\ UNCHANGED <<catIn, catOut, fs, fs0, results, calls, pc, files, plan, ex, scan, race>>

\* files = scanner.scan_desktop(); if len(files) == 0: return
MainScanned ==
    /\ main.pc = "scan"
    /\ scan.pc = "returned"
    /\ files' = scan.files
    /\ IF main.driver = "main" /\ Len(scan.files) = 0
       THEN main' = [main EXCEPT !.pc = "exit0"] /\ pc' = pc
       ELSE main' = [main EXCEPT !.pc = "plan"] /\ pc' = "listed"
    /\ UNCHANGED <<catIn, catOut, fs, fs0, results, calls, plan, ex, scan, race>>

\* plan = service.create_organization_plan(files)
MainBuildPlan ==
    /\ main.pc = "plan"
    /\ BuildPlan

\* confirmed = cli.request_confirmation(), one line of input at a time; the
\* end of the input raises EOFError, which main() reports before it exits
MainRequestConfirmation ==
    /\ main.driver = "main"
    /\ main.pc = "plan"
    /\ pc = "planned"
    /\ \/ \E line \in Responses :
             LET answer == RequestConfirmation(line)
             IN IF answer = "again"
                THEN /\ main.asked < MaxAsks
                     /\ main' = [main EXCEPT !.asked = @ + 1]
                ELSE main' = [main EXCEPT !.confirmed = {answer = "True"},
                                          !.pc = AfterConfirmation(answer = "True")]
       \/ main' = [main EXCEPT !.pc = "exit1"]
    /\ UNCHANGED <<catIn, catOut, fs, fs0, results, calls, pc, files, plan, ex, scan, race>>

\* the tests call execute_plan on the plan without a prompt
PipelineProceed ==
    /\ main.driver = "pipeline"
    /\ main.pc = "plan"
    /\ pc = "planned"
    /\ main' = [main EXCEPT !.pc = "execute"]
    /\ UNCHANGED <<catIn, catOut, fs, fs0, results, calls, pc, files, plan, ex, scan, race>>

\* result = service.execute_plan(plan, desktop_path)
MainExecute ==
    /\ main.pc = "execute"
    /\ \/ ExecStart \/ ExecCreateFolder \/ ExecFoldersDone
       \/ ExecMoveFile \/ ExecEndCategory \/ ExecReturn

\* cli.display_results(result): the run is over
MainFinish ==
    /\ main.pc = "execute"
    /\ pc = "done"
    /\ main' = [main EXCEPT !.pc = "exit0",
                            !.history = Append(@, [run |-> main.run, files |-> files,
                                                   errors |-> ex.errors,
                                                   total_moved |-> ex.total_moved,
                                                   fs |-> fs])]
    /\ UNCHANGED <<catIn, catOut, fs, fs0, results, calls, pc, files, plan, ex, scan, race>>

\* the workflow is started again on the directory as the last run left it
MainAgain ==
    /\ main.pc \in {"exit0", "cancelled"}
    /\ main.run < MaxRuns
    /\ main' = [main EXCEPT !.pc = "scan", !.run = @ + 1, !.confirmed = {}, !.asked = 0]
    /\ scan' = [NoScan EXCEPT !.pc = "start"]
    /\ fs0' = fs
    /\ pc' = "idle" /\ files' = <<>> /\ plan' = NoPlan /\ ex' = NoExec
    /\ results' = <<>> /\ calls' = <<>>
    /\ UNCHANGED <<catIn, catOut, fs, race>>

MainNext ==
    \/ MainScan
    \/ MainScanRaised
    \/ MainScanned
    \/ MainBuildPlan
    \/ MainRequestConfirmation
    \/ PipelineProceed
    \/ MainExecute
    \/ MainFinish
    \/ MainAgain

SpecMain == MainInit /\ [][MainNext]_vars

----------------------------------------------------------------------------
(* Two callers of move_file on files of the same base name and one other    *)
(* writer to Dest: each call is the collision check, then the relocation    *)

Movers == {1, 2}
MaxWrites == 1      \* files the other writer creates in Dest

\* the entries directly in Dest
DestEntries(f) == {p \in DOMAIN f : Parent(p) = Dest}

\* move_file after the collision check: shutil.move to the resolved
\* destination and the MoveResult
Relocate(f, source, destination_folder, destination) ==
    LET m == ShutilMove(f, source, destination)
    IN IF m.ok
       THEN [result |-> [success |-> TRUE, source |-> source,
                         destination |-> destination, error |-> NoError],
             fs |-> m.fs, raised |-> NoError]
       ELSE IF m.error \in OSErrors \cup PermissionErrors \cup ShutilErrors
       THEN [result |-> [success |-> FALSE, source |-> source,
                         destination |-> Append(destination_folder, Name(source)),
                         error |-> m.error],
             fs |-> m.fs, raised |-> NoError]
       ELSE [result |-> NoResult, fs |-> m.fs, raised |-> m.error]

RaceInit ==
    /\ \E S \in SUBSET DestNames :
          fs = [p \in DOMAIN SourceTree \cup DOMAIN DestTree(S) |->
                   IF p \in DOMAIN SourceTree THEN SourceTree[p] ELSE DestTree(S)[p]]
    /\ fs0 = fs
    /\ race = [movers |-> [i \in Movers |->
                             [pc |-> "check", source |-> Append(SourceDir(i), A_gz),
                              destination |-> <<>>, seen |-> {},
                              disturbed |-> FALSE, overwrote |-> FALSE]],
               writes |-> 0]
    /\ results = <<>> /\ calls = <<>>
    /\ CatIdle /\ ServiceIdle /\ ScanIdle /\ MainIdle

\* destination = self.resolve_name_conflict(destination_folder / source.name)
RaceCheck(i) ==
    /\ race.movers[i].pc = "check"
    /\ race' = [race EXCEPT
                  !.movers[i].pc = "relocate",
                  !.movers[i].destination =
                      ResolveNameConflict(fs, Append(Dest, Name(race.movers[i].source))),
                  !.movers[i].seen = DestEntries(fs)]
    /\ UNCHANGED <<catIn, catOut, fs, fs0, results, calls, pc, files, plan, ex, scan, main>>

\* shutil.move(str(source), str(destination)) and the return
RaceRelocate(i) ==
    /\ race.movers[i].pc = "relocate"
    /\ LET me == race.movers[i]
           m == Relocate(fs, me.source, Dest, me.destination)
       IN /\ fs' = m.fs
          /\ results' = Append(results, m.result)
          /\ calls' = Append(calls, Called("move_file", <<me.source, Dest>>,
                                           m.result, m.raised))
          /\ race' = [race EXCEPT
                        !.movers[i].pc = "done",
                        !.movers[i].disturbed = (DestEntries(fs) # me.seen),
                        !.movers[i].overwrote =
                            (m.result.success /\ Exists(fs, me.destination))]
    /\ UNCHANGED <<catIn, catOut, fs0, pc, files, plan, ex, scan, main>>

\* another process creates a file in Dest
RaceOtherWriter ==
    /\ race.writes < MaxWrites
    /\ \E n \in {A_gz, A_1_gz} :
          /\ ~Exists(fs, Append(Dest, n))
          /\ fs' = [p \in DOMAIN fs \cup {Append(Dest, n)} |->
                       IF p = Append(Dest, n) THEN File(200 + race.writes) ELSE fs[p]]
    /\ race' = [race EXCEPT !.writes = @ + 1]
    /\ UNCHANGED <<catIn, catOut, fs0, results, calls, pc, files, plan, ex, scan, main>>

RaceNext ==
    \/ \E i \in Movers : RaceCheck(i)
    \/ \E i \in Movers : RaceRelocate(i)
    \/ RaceOtherWriter

SpecRace == RaceInit /\ [][RaceNext]_vars

----------------------------------------------------------------------------
(* Properties of the categorizer (SpecCat)                                 *)

\* the 34 table extensions written without their dot
TableExtensionsNoDot == {Tail(k) : k \in DOMAIN ExtensionToCategory}

IsAscii(s) == \A i \in 1..Len(s) : s[i] \in AsciiAlphabet
HasNoDotOrSeparator(s) == \A i \in 1..Len(s) : s[i] \notin {".", "/"}

LoweredSuffix == Lower(Suffix(PathName(TestDot \o catIn)))

\* C11: get_category of a path is the category the table lists for the
\* lowercased final suffix of the path, for each of the 34 listed extensions
\* (9 Documents, 8 Images, 7 Videos, 1 PDF, 5 ZIPs, 4 Installers), and "Others"
\* when the suffix is missing or not listed; no extension has two categories.
C11_TableLookup ==
    /\ catOut # <<>> =>
          /\ \A c \in CategoryLabels :
                LoweredSuffix \in ListedExtensions(c) => catOut.plain = c
          /\ (\A c \in CategoryLabels : LoweredSuffix \notin ListedExtensions(c))
                => catOut.plain = Others
    /\ [i \in 1..Len(CATEGORIES) |-> CATEGORIES[i].category]
          = <<Documents, Images, Videos, PDF, ZIPs, Installers>>
    /\ [i \in 1..Len(CATEGORIES) |-> Len(CATEGORIES[i].extensions)] = <<9, 8, 7, 1, 5, 4>>
    /\ \A i \in 1..Len(CATEGORIES) :
          /\ Range(CATEGORIES[i].extensions) = ListedExtensions(CATEGORIES[i].category)
          /\ Cardinality(Range(CATEGORIES[i].extensions)) = Len(CATEGORIES[i].extensions)
          /\ \A j \in 1..Len(CATEGORIES) :
                i # j => Range(CATEGORIES[i].extensions) \cap Range(CATEGORIES[j].extensions) = {}
    /\ Cardinality(DOMAIN ExtensionToCategory) = 34

\* C11 witness: a listed extension that follows another listed suffix has been
\* categorized by its own category, as written and in upper case.
C11_Witness ==
    /\ catOut # <<>>
    /\ catIn = <<"g","z",".","p","k","g">>
    /\ catOut.plain = Installers
    /\ catOut.upper = Installers

----------------------------------------------------------------------------
(* Properties of the mover (SpecMover)                                     *)

InDest(p) == Len(p) = 2 /\ Parent(p) = Dest

LastResult(rs) == rs[Len(rs)]

\* C1: no move of the single caller overwrites, removes or changes an entry of
\* the destination folder, and a successful move lands on a path that had no
\* entry before the call.
C1_NoOverwrite ==
    [][ /\ \A p \in DOMAIN fs : InDest(p) => (p \in DOMAIN fs' /\ fs'[p] = fs[p])
        /\ (results' # results /\ LastResult(results').success)
              => /\ LastResult(results').destination \notin DOMAIN fs
                 /\ InDest(LastResult(results').destination) ]_vars

\* C1 witness: a move succeeded although the plain name was taken in the
\* destination folder before the run, and the old file is still as it was.
C1_Witness ==
    \E i \in 1..Len(results) :
        LET plain == Append(Dest, Name(results[i].source))
        IN /\ results[i].success
           /\ plain \in DOMAIN fs0
           /\ plain \in DOMAIN fs /\ fs[plain] = fs0[plain]
           /\ results[i].destination # plain

\* the names the resolver may return for a.gz and for a_1.gz, written out
ExpectedName(name, n) ==
    IF name = A_gz THEN <<"a","_">> \o DecStr(n) \o <<".","g","z">>
    ELSE <<"a","_","1","_">> \o DecStr(n) \o <<".","g","z">>

\* C4: resolve_name_conflict returns the candidate unchanged when nothing
\* exists there, and otherwise parent/stem_n.ext for the smallest n >= 1 at
\* which nothing exists; the returned path never names an existing entry.
C4_ResolveSmallestFree ==
    \A name \in {A_gz, A_1_gz} :
        LET candidate == Append(Dest, name)
            r == ResolveNameConflict(fs, candidate)
        IN /\ r \notin DOMAIN fs
           /\ candidate \notin DOMAIN fs => r = candidate
           /\ candidate \in DOMAIN fs =>
                \E n \in 1..(Cardinality(DOMAIN fs) + 1) :
                    /\ r = Append(Dest, ExpectedName(name, n))
                    /\ \A m \in 1..(n - 1) : Append(Dest, ExpectedName(name, m)) \in DOMAIN fs

\* C4 witness: a.gz and a_1.gz exist in the destination folder and a move of
\* another a.gz has landed on a_2.gz.
C4_Witness ==
    /\ Append(Dest, A_gz) \in DOMAIN fs0
    /\ Append(Dest, A_1_gz) \in DOMAIN fs0
    /\ \E i \in 1..Len(results) :
          /\ results[i].success
          /\ Name(results[i].source) = A_gz
          /\ results[i].destination = Append(Dest, A_2_gz)

\* the case of C5: the destination is a writable directory, the source folders
\* are writable, and every call so far moved a different source named a.gz
SameNameMoves ==
    /\ IsDir(fs0, Dest) /\ AllWritable(fs0)
    /\ results # <<>>
    /\ \A i \in 1..Len(results) : Name(results[i].source) = A_gz
    /\ \A i, j \in 1..Len(results) : i # j => results[i].source # results[j].source

\* the first file lands on a.gz, the j-th on a_<j-1>.gz, with its own content
LandsOnJthName ==
    \A j \in 1..Len(results) :
        LET d == Append(Dest, IF j = 1 THEN A_gz
                              ELSE <<"a","_">> \o DecStr(j - 1) \o <<".","g","z">>)
        IN /\ results[j].success
           /\ results[j].destination = d
           /\ d \in DOMAIN fs /\ fs[d] = File(SourceData(results[j].source))
           /\ results[j].source \notin DOMAIN fs

\* C5 as stated: k files of the same base name moved into a folder that holds
\* no file of that name land on name.ext, name_1.ext, ... name_<k-1>.ext.
C5_JthNameWhenPlainNameFree ==
    (SameNameMoves /\ Append(Dest, A_gz) \notin DOMAIN fs0) => LandsOnJthName

\* C5 amended: k files of the same base name moved into a writable folder that
\* holds none of name.ext, name_1.ext, ... name_<k-1>.ext land on exactly
\* these names in the order of the moves, each with its own content, and
\* nothing that was in the folder is overwritten.
C5_JthNameWhenFamilyFree ==
    (/\ SameNameMoves
     /\ \A n \in DestNames : Append(Dest, n) \notin DOMAIN fs0)
        => /\ LandsOnJthName
           /\ \A p \in DOMAIN fs0 : InDest(p) => (p \in DOMAIN fs /\ fs[p] = fs0[p])

\* C5 witness: three files named a.gz were moved into the empty folder.
C5_Witness ==
    /\ SameNameMoves
    /\ \A n \in DestNames : Append(Dest, n) \notin DOMAIN fs0
    /\ Len(results) = 3
    /\ results[3].destination = Append(Dest, A_2_gz)

\* C14: move_file never raises; a failed move (source missing, destination
\* folder missing or not writable) returns success false, an error description
\* that is not empty, the source path and the destination
\* destination_folder/source_basename; a successful move returns success true
\* and no error.
C14_MoveNeverRaises ==
    [][ calls' # calls =>
           LET call == LastResult(calls')
               source == call.args[1]
               destination_folder == call.args[2]
               r == call.returned
           IN /\ call.raised = NoError
              /\ r = LastResult(results')
              /\ r.success \in BOOLEAN
              /\ r.source = source
              /\ r.success => r.error = NoError
              /\ ~r.success =>
                    /\ r.error \notin {NoError, ""}
                    /\ r.destination = Append(destination_folder, Name(source))
              /\ (\/ source \notin DOMAIN fs
                  \/ ~IsDir(fs, destination_folder)
                  \/ ReadOnly(fs, destination_folder))
                    => ~r.success ]_vars

\* C14 witness: one caller has seen a move fail for a missing source after the
\* same source was moved, with the destination destination_folder/basename.
C14_Witness ==
    /\ Len(calls) = 2
    /\ calls[1].returned.success
    /\ calls[1].returned.destination # Append(Dest, Name(calls[1].args[1]))
    /\ calls[2].args[1] = calls[1].args[1]
    /\ ~calls[2].returned.success
    /\ calls[2].returned.destination = Append(Dest, Name(calls[2].args[1]))
    /\ calls[2].returned.error = "ENOENT"

\* C15: a successful move leaves the content of the file unchanged at the
\* reported destination, removes the file from the source path and places it
\* directly inside the destination folder; when no entry of the source's base
\* name was in the folder, the destination name is the source's base name.
C15_SuccessfulMovePreserves ==
    [][ (calls' # calls /\ LastResult(calls').returned.success) =>
           LET source == LastResult(calls').args[1]
               destination_folder == LastResult(calls').args[2]
               destination == LastResult(calls').returned.destination
           IN /\ source \in DOMAIN fs
              /\ destination \in DOMAIN fs' /\ fs'[destination] = fs[source]
              /\ source \notin DOMAIN fs'
              /\ Parent(destination) = destination_folder
              /\ Append(destination_folder, Name(source)) \notin DOMAIN fs
                    => Name(destination) = Name(source)
              /\ \A p \in DOMAIN fs : p # source => (p \in DOMAIN fs' /\ fs'[p] = fs[p])
              /\ DOMAIN fs' \subseteq DOMAIN fs \cup {destination} ]_vars

\* C15 witness: a file was moved under its own name into a folder that held
\* other files, and its content is at the destination.
C15_Witness ==
    /\ Len(calls) = 1
    /\ calls[1].returned.success
    /\ Name(calls[1].args[1]) = A_1_gz
    /\ Append(Dest, A_gz) \in DOMAIN fs0
    /\ calls[1].returned.destination = Append(Dest, A_1_gz)
    /\ fs[Append(Dest, A_1_gz)] = File(SourceData(calls[1].args[1]))
    /\ calls[1].args[1] \notin DOMAIN fs

----------------------------------------------------------------------------
(* Properties of the folder creation (SpecFolder)                          *)

FolderPath(call) == Append(call.args[1], call.args[2])

\* the base directory of the call exists and is writable before the calls
BaseUsable(call) == IsDir(fs0, call.args[1]) /\ ~ReadOnly(fs0, call.args[1])

\* the filesystem holds what it held before the calls and, besides, exactly one
\* empty directory for every folder the calls created
OnlyFoldersAdded ==
    LET created == {FolderPath(calls[i]) : i \in {j \in 1..Len(calls) : calls[j].returned}}
    IN /\ DOMAIN fs = DOMAIN fs0 \cup created
       /\ \A p \in DOMAIN fs0 : fs[p] = fs0[p]
       /\ \A p \in created : fs[p].kind = "dir"

\* C12 as stated: every call of create_category_folder on an existing,
\* writable base directory returns success, however often it is repeated, and
\* afterwards one directory named after the category exists in it.
C12_SuccessOnUsableBase ==
    /\ \A i \in 1..Len(calls) :
          BaseUsable(calls[i]) => (calls[i].returned /\ IsDir(fs, FolderPath(calls[i])))
    /\ OnlyFoldersAdded

\* C12 amended: every call of create_category_folder on an existing, writable
\* base directory in which no regular file has the name of the category returns
\* success, however often it is repeated; afterwards the base directory holds
\* one directory named after the category, and nothing else was added or
\* changed.
C12_IdempotentUnlessOccupied ==
    /\ \A i \in 1..Len(calls) :
          (BaseUsable(calls[i]) /\ ~IsFile(fs0, FolderPath(calls[i])))
             => (calls[i].returned /\ IsDir(fs, FolderPath(calls[i])))
    /\ OnlyFoldersAdded

\* C12 witness: three calls in a row for the same folder, which did not exist,
\* all returned success and the folder exists.
C12_Witness ==
    /\ Len(calls) = 3
    /\ \A i \in 1..3 : calls[i].args = calls[1].args /\ calls[i].returned
    /\ BaseUsable(calls[1])
    /\ FolderPath(calls[1]) \notin DOMAIN fs0
    /\ IsDir(fs, FolderPath(calls[1]))

\* C13: create_category_folder never raises; when the folder cannot be created
\* (missing or invalid base directory, permission denied, a regular file under
\* the folder name) it returns failure and leaves the filesystem as it was.
C13_FailureIsReturned ==
    [][ calls' # calls =>
           LET call == LastResult(calls')
               path == FolderPath(call)
           IN /\ call.raised = NoError
              /\ call.returned \in BOOLEAN
              /\ ~call.returned => fs' = fs
              /\ (\/ ~IsDir(fs, Parent(path))
                  \/ (ReadOnly(fs, Parent(path)) /\ ~IsDir(fs, path))
                  \/ IsFile(fs, path))
                    => ~call.returned ]_vars

\* C13 witness: one caller has seen the three failures: an invalid base
\* directory, a regular file under the folder name, and permission denied.
C13_Witness ==
    /\ Len(calls) = 3
    /\ \A i \in 1..3 : ~calls[i].returned /\ calls[i].raised = NoError
    /\ fs = fs0
    /\ \E i \in 1..3 : calls[i].args[1] = InvalidPath
    /\ \E i \in 1..3 : IsFile(fs0, FolderPath(calls[i]))
    /\ \E i \in 1..3 : /\ ReadOnly(fs0, calls[i].args[1])
                       /\ FolderPath(calls[i]) \notin DOMAIN fs0

----------------------------------------------------------------------------
(* Properties of the scanner (SpecScan)                                    *)

ScanEnded == scan.pc \in {"returned", "raised"}

\* the regular files directly in the scanned directory before the scan
PlainFiles == {p \in DOMAIN fs0 : Parent(p) = Desktop /\ fs0[p].kind = "file"}

\* those of them that no exclusion rule covers
Eligible == {p \in PlainFiles : Lower(Name(p)) # DesktopIni /\ Head(Name(p)) # "."}

ScannedPaths == {scan.files[i].path : i \in 1..Len(scan.files)}

\* C16: the records of a scan never hold an entry named "desktop.ini" in any
\* letter case, never a directory (a category folder included), and never a
\* file inside a subdirectory.
C16_ScanExcludes ==
    \A i \in 1..Len(scan.files) :
        LET r == scan.files[i]
        IN /\ Lower(r.name) # DesktopIni /\ Lower(Name(r.path)) # DesktopIni
           /\ r.path \in PlainFiles
           /\ fs0[r.path].kind # "dir"
           /\ Parent(r.path) = Desktop

\* C16 witness: a scan has returned records for a directory that holds
\* Desktop.INI and the folder ZIPs with a file in it.
C16_Witness ==
    /\ scan.pc = "returned"
    /\ Append(Desktop, Desktop_INI) \in DOMAIN fs0
    /\ Append(ZipsFolder, A_gz) \in DOMAIN fs0
    /\ Len(scan.files) = 2

\* nothing in the directory is excluded by name, the directory can be listed
\* and searched, and no entry was removed during the scan
NothingExcluded ==
    /\ Desktop \in DOMAIN fs0 /\ fs0[Desktop].kind = "dir"
    /\ fs0[Desktop].mode \in {"rw", "ro"}
    /\ Eligible = PlainFiles
    /\ scan.removed = {}

\* C17: for a directory of N plain files and M subdirectories without excluded
\* items, the scan returns exactly N records, one for each file, none for a
\* directory, each with the path, the base name and the lowercased suffix.
C17_ScanComplete ==
    (ScanEnded /\ NothingExcluded) =>
        /\ scan.pc = "returned"
        /\ scan.returned = {scan.files}
        /\ Len(scan.files) = Cardinality(PlainFiles)
        /\ ScannedPaths = PlainFiles
        /\ \A i \in 1..Len(scan.files) :
              /\ scan.files[i].name = Name(scan.files[i].path)
              /\ scan.files[i].extension = Lower(Suffix(Name(scan.files[i].path)))

\* C17 witness: a scan of two plain files, one with an upper-case suffix, and
\* one subdirectory has returned two records.
C17_Witness ==
    /\ scan.pc = "returned"
    /\ NothingExcluded
    /\ PlainFiles = {Append(Desktop, A_gz), Append(Desktop, B_GIF)}
    /\ ZipsFolder \in DOMAIN fs0
    /\ Len(scan.files) = 2

\* C18: the scan raises FileNotFoundError when the directory does not exist
\* and PermissionError when it exists and may not be read; existence is checked
\* first, permission second and before the directory is listed or an entry is
\* taken up; a scan that raises returns no list.
C18_ScanFailsEarly ==
    /\ scan.checks \in {<<>>, <<"exists">>, <<"exists", "access">>,
                        <<"exists", "access", "listdir">>}
    /\ scan.iterated # {} => Len(scan.checks) = 3
    /\ scan.pc = "raised" => (scan.returned = {} /\ scan.raised # NoError)
    /\ scan.pc = "returned" => scan.raised = NoError
    /\ ScanEnded =>
          /\ Desktop \notin DOMAIN fs0 =>
                /\ scan.pc = "raised" /\ scan.raised = "FileNotFoundError"
                /\ scan.checks = <<"exists">>
          /\ (Desktop \in DOMAIN fs0 /\ fs0[Desktop].mode = "none") =>
                /\ scan.pc = "raised" /\ scan.raised = "PermissionError"
                /\ scan.checks = <<"exists", "access">>
                /\ scan.iterated = {}

\* C18 witness: a scan of an existing directory that holds a file and may not
\* be read has raised PermissionError.
C18_Witness ==
    /\ scan.pc = "raised"
    /\ scan.raised = "PermissionError"
    /\ Append(Desktop, A_gz) \in DOMAIN fs0
    /\ fs0[Desktop].mode = "none"

\* C19 as stated: when the directory exists and may be read, an entry whose
\* check fails (permission error, removal after the listing) is skipped: the
\* scan does not raise, and it returns a record for every other eligible entry.
C19_SkipsFailingEntries ==
    (/\ ScanEnded
     /\ Desktop \in DOMAIN fs0 /\ fs0[Desktop].kind = "dir"
     /\ fs0[Desktop].mode \in {"rw", "ro", "list"})
        => /\ scan.pc = "returned"
           /\ \A p \in Eligible :
                 (p \notin scan.removed /\ fs0[Desktop].mode # "list") => p \in ScannedPaths

\* the part of C19 that holds: with a directory that can be searched, a scan
\* during which entries are removed returns, with a record for every eligible
\* entry that was not removed
ScanSkipsRemovedEntries ==
    (/\ ScanEnded
     /\ Desktop \in DOMAIN fs0 /\ fs0[Desktop].kind = "dir"
     /\ fs0[Desktop].mode \in {"rw", "ro"})
        => /\ scan.pc = "returned"
           /\ \A p \in Eligible : p \notin scan.removed => p \in ScannedPaths

----------------------------------------------------------------------------
(* Properties of the service (Spec)                                        *)

RECURSIVE SumSeq(_)
SumSeq(q) == IF q = <<>> THEN 0 ELSE q[1] + SumSeq(Tail(q))

\* the values of a dict in the order of its keys
Values(d) == [i \in 1..Len(d.keys) |-> d.val[d.keys[i]]]

Count(q, x) == Cardinality({i \in 1..Len(q) : q[i] = x})

PlanBuilt == pc \notin {"idle", "start", "listed"}

\* N, and K: the planned records whose file did not exist when its move began
PlannedN == plan.total_files
MissingK == Cardinality({k \in 1..Len(ex.attempts) : ~ex.attempts[k].existed})

\* every folder creation succeeded, the base directory and the folders are
\* writable, and no planned path is the path of a folder of the plan
FoldersUsable ==
    /\ AllWritable(fs0)
    /\ \A i \in 1..Len(ex.folders) : ex.folders[i].success
    /\ \A i \in 1..Len(files) :
          files[i].path \notin {Append(Desktop, c) : c \in Range(plan.folders_to_create)}

\* C2 as stated: execute_plan returns with total_moved exactly N-K and at
\* least K errors, for any plan of N records of which K are missing.
C2_MovedExactlyNMinusK ==
    pc = "done" =>
        /\ ex.total_moved = PlannedN - MissingK
        /\ Len(ex.errors) >= MissingK

\* C2 amended: execute_plan returns with total_moved at most N-K and at least K
\* errors; total_moved is exactly N-K when every folder creation succeeded, the
\* base directory and the category folders are writable and no planned path is
\* the path of a category folder of the plan.
C2_MovedAtMostNMinusK ==
    pc = "done" =>
        /\ ex.total_moved <= PlannedN - MissingK
        /\ Len(ex.errors) >= MissingK
        /\ FoldersUsable => ex.total_moved = PlannedN - MissingK

\* C2 witness: a plan with a missing file and an existing one was executed with
\* usable folders, and the existing one was moved.
C2_Witness ==
    /\ pc = "done"
    /\ FoldersUsable
    /\ MissingK >= 1
    /\ ex.total_moved >= 1
    /\ ex.total_moved = PlannedN - MissingK

\* C3: when execute_plan returns it has attempted the move of every record of
\* every category exactly once, in whatever way folder creations and earlier
\* moves ended.
C3_EveryRecordAttemptedOnce ==
    pc = "done" =>
        LET d == plan.files_by_category
        IN /\ \A c \in 1..Len(d.keys) : \A i \in 1..Len(d.val[d.keys[c]]) :
                 Cardinality({k \in 1..Len(ex.attempts) :
                                 /\ ex.attempts[k].ci = c /\ ex.attempts[k].fi = i
                                 /\ ex.attempts[k].category = d.keys[c]
                                 /\ ex.attempts[k].path = d.val[d.keys[c]][i].path}) = 1
           /\ Len(ex.attempts) = SumSeq([c \in 1..Len(d.keys) |-> Len(d.val[d.keys[c]])])

\* C3 witness: a folder creation failed, a move failed, and the move after the
\* failed one was attempted and succeeded.
C3_Witness ==
    /\ pc = "done"
    /\ \E i \in 1..Len(ex.folders) : ~ex.folders[i].success
    /\ \E k \in 1..(Len(ex.attempts) - 1) :
          ~ex.attempts[k].success /\ ex.attempts[k + 1].success

\* C6: in the result of execute_plan the per-category counts add up to
\* total_moved.
C6_CountsAddUp ==
    pc = "done" => SumSeq(Values(ex.moved_by_category)) = ex.total_moved

\* C6 witness: a result with two categories, a moved file and an error.
C6_Witness ==
    /\ pc = "done"
    /\ Len(ex.moved_by_category.keys) >= 2
    /\ ex.total_moved >= 1
    /\ ex.errors # <<>>

\* C7: the plan places every record of the list in exactly one group, as often
\* as the list holds it; the group sizes add up to total_files, which is the
\* length of the list.
C7_EveryRecordInOneGroup ==
    PlanBuilt =>
        LET d == plan.files_by_category
        IN /\ plan.total_files = Len(files)
           /\ SumSeq([c \in 1..Len(d.keys) |-> Len(d.val[d.keys[c]])]) = plan.total_files
           /\ \A i \in 1..Len(files) :
                 /\ Cardinality({k \in DOMAIN d.val : Count(d.val[k], files[i]) > 0}) = 1
                 /\ \A k \in DOMAIN d.val :
                       Count(d.val[k], files[i]) > 0 => Count(d.val[k], files[i]) = Count(files, files[i])

\* C7 witness: a plan of three records in two groups.
C7_Witness ==
    /\ PlanBuilt
    /\ Len(files) = 3
    /\ Len(plan.files_by_category.keys) = 2

\* C8: folders_to_create holds exactly the keys of files_by_category, each
\* once; no group is empty, and a category that received no record is in
\* neither.
C8_FoldersAreTheKeys ==
    PlanBuilt =>
        LET d == plan.files_by_category
        IN /\ Range(plan.folders_to_create) = DOMAIN d.val
           /\ Range(d.keys) = DOMAIN d.val
           /\ \A i, j \in 1..Len(plan.folders_to_create) :
                 i # j => plan.folders_to_create[i] # plan.folders_to_create[j]
           /\ \A k \in DOMAIN d.val : d.val[k] # <<>>
           /\ \A label \in CategoryLabels :
                 (\A i \in 1..Len(files) : GetCategoryOfPath(files[i].name) # label)
                    => (label \notin Range(plan.folders_to_create) /\ label \notin DOMAIN d.val)

\* C8 witness: a plan of three records that all fall in one category.
C8_Witness ==
    /\ PlanBuilt
    /\ Len(files) = 3
    /\ Len(plan.folders_to_create) = 1

\* C20: for a plan built by create_organization_plan, the moved_by_category
\* of the result has a key for every category of folders_to_create and no
\* other; the count of a category is the number of its moves that succeeded,
\* so a category whose moves all failed is present with count 0.
C20_KeysAreTheFolders ==
    pc = "done" =>
        LET d == ex.moved_by_category
        IN /\ DOMAIN d.val = Range(plan.folders_to_create)
           /\ Range(d.keys) = Range(plan.folders_to_create)
           /\ Len(d.keys) = Len(plan.folders_to_create)
           /\ \A c \in Range(plan.folders_to_create) :
                 d.val[c] = Cardinality({k \in 1..Len(ex.attempts) :
                                ex.attempts[k].category = c /\ ex.attempts[k].success})

\* C20 witness: a result in which one category has count 0 after all its moves
\* failed and another category has a moved file.
C20_Witness ==
    /\ pc = "done"
    /\ \E c \in DOMAIN ex.moved_by_category.val :
          /\ ex.moved_by_category.val[c] = 0
          /\ \E k \in 1..Len(ex.attempts) : ex.attempts[k].category = c
    /\ \E c \in DOMAIN ex.moved_by_category.val : ex.moved_by_category.val[c] >= 1

PlannedPaths == {files[i].path : i \in 1..Len(files)}
CategoryFolders == {Append(Desktop, c) : c \in Range(plan.folders_to_create)}
AtOrUnderPlanned(p) == \E q \in PlannedPaths : p = q \/ IsUnder(p, q)

\* C21: execute_plan creates directories only at Desktop/<c> for the
\* categories c of folders_to_create, which are among the seven labels; every
\* entry that is not a planned one keeps its place and content, and every new
\* entry is such a folder or lies in one, a new directory that is not such a
\* folder being put there by the move of a planned entry; with an
\* empty plan nothing is created and the result is total_moved 0, no errors and
\* an empty per-category map.
C21_FrameEffect ==
    PlanBuilt =>
        /\ Range(plan.folders_to_create) \subseteq CategoryLabels
        /\ \A p \in DOMAIN fs0 :
              ~AtOrUnderPlanned(p) => (p \in DOMAIN fs /\ fs[p] = fs0[p])
        /\ \A p \in DOMAIN fs \ DOMAIN fs0 :
              /\ p \in CategoryFolders \/ \E d \in CategoryFolders : IsUnder(p, d)
              /\ (fs[p].kind = "dir" /\ p \notin CategoryFolders)
                    => (Parent(p) \in CategoryFolders
                        /\ \E k \in 1..Len(results) :
                              Parent(results[k].destination) = Parent(p))
        /\ (pc = "done" /\ files = <<>>) =>
              /\ fs = fs0
              /\ ex.folders = <<>> /\ ex.attempts = <<>>
              /\ ex.total_moved = 0 /\ ex.errors = <<>>
              /\ ex.moved_by_category = EmptyDict

\* C21 witness: a plan was executed that created a folder and moved a file
\* while the directory held a file that was not planned and a folder with an
\* old file.
C21_Witness ==
    /\ pc = "done"
    /\ ex.total_moved >= 1
    /\ \E p \in DOMAIN fs \ DOMAIN fs0 : p \in CategoryFolders
    /\ Append(Desktop, B_GIF) \in DOMAIN fs0 \ PlannedPaths
    /\ Append(ZipsFolder, A_gz) \in DOMAIN fs0

\* the error strings the failed folder creations and the failed moves give, in
\* the order of the attempts
FolderErrorsOf(folders) ==
    LET failed == SelectSeq(folders, LAMBDA x : ~x.success)
    IN [i \in 1..Len(failed) |-> FolderError(failed[i].category)]
RECURSIVE MoveErrorsFrom(_)
MoveErrorsFrom(k) ==
    IF k > Len(ex.attempts) THEN <<>>
    ELSE LET a == ex.attempts[k]
             file_info == plan.files_by_category.val[a.category][a.fi]
         IN (IF a.success THEN <<>> ELSE <<MoveError(file_info.name, results[k].error)>>)
               \o MoveErrorsFrom(k + 1)

\* C23: execute_plan attempts every folder creation, in the order of
\* folders_to_create, before the first move; a failed creation appends one
\* error and the moves into that category are attempted all the same; the
\* error list is in attempt order: folder errors first, then move errors in
\* category order and, within a category, in record order.
C23_AttemptOrder ==
    PlanBuilt =>
        /\ Len(ex.folders) <= Len(plan.folders_to_create)
        /\ \A i \in 1..Len(ex.folders) : ex.folders[i].category = plan.folders_to_create[i]
        /\ ex.attempts # <<>> => Len(ex.folders) = Len(plan.folders_to_create)
        /\ Len(results) = Len(ex.attempts)
        /\ \A k, l \in 1..Len(ex.attempts) :
              k < l => \/ ex.attempts[k].ci < ex.attempts[l].ci
                       \/ /\ ex.attempts[k].ci = ex.attempts[l].ci
                          /\ ex.attempts[k].fi < ex.attempts[l].fi
        /\ ex.errors = FolderErrorsOf(ex.folders) \o MoveErrorsFrom(1)
        /\ pc = "done" =>
              \A i \in 1..Len(ex.folders) :
                  Cardinality({k \in 1..Len(ex.attempts) :
                                  ex.attempts[k].category = ex.folders[i].category})
                     = Len(plan.files_by_category.val[ex.folders[i].category])

\* C23 witness: a folder creation failed, the move into that folder was
\* attempted and failed, and a later move of another category failed too.
C23_Witness ==
    /\ pc = "done"
    /\ Len(ex.errors) = 3
    /\ ex.errors[1].kind = FolderError(ZIPs).kind
    /\ ex.errors[2].kind = MoveError(A_gz, "").kind
    /\ ex.errors[3].kind = MoveError(A_gz, "").kind
    /\ ex.errors[2].what # ex.errors[3].what
    /\ \E k \in 1..Len(ex.attempts) : ex.attempts[k].category = ex.errors[1].what

FailedMoves == Cardinality({k \in 1..Len(ex.attempts) : ~ex.attempts[k].success})
FailedFolders == Cardinality({i \in 1..Len(ex.folders) : ~ex.folders[i].success})

\* C28: in the result of execute_plan, total_moved plus the number of failed
\* moves is total_files, and the number of errors is the number of failed
\* folder creations plus the number of failed moves; a result without errors
\* has total_moved = total_files.
C28_CountsAndErrors ==
    pc = "done" =>
        /\ ex.total_moved + FailedMoves = plan.total_files
        /\ Len(ex.errors) = FailedFolders + FailedMoves
        /\ ex.errors = <<>> => ex.total_moved = plan.total_files

\* C28 witness: a result with a failed folder creation, a failed move and a
\* moved file.
C28_Witness ==
    /\ pc = "done"
    /\ FailedFolders = 1 /\ FailedMoves = 1
    /\ ex.total_moved = 2
    /\ plan.total_files = 3

\* the category of an extension string by the table alone
CategoryOfExtension(extension) ==
    IF Lower(extension) \in DOMAIN ExtensionToCategory
    THEN ExtensionToCategory[Lower(extension)] ELSE Others

Grouped(record, category) ==
    /\ category \in DOMAIN plan.files_by_category.val
    /\ Count(plan.files_by_category.val[category], record) > 0

\* C24: the plan places every record in the group of the category of its
\* extension field, also a record whose extension field is not the suffix of
\* its path; building the plan leaves the filesystem as it was.
C24_GroupedByExtensionField ==
    PlanBuilt =>
        /\ \A i \in 1..Len(files) : Grouped(files[i], CategoryOfExtension(files[i].extension))
        /\ pc = "planned" => fs = fs0

\* the plan places every record in the group of the category of the name of
\* its path and builds it without touching the filesystem
PlanGroupsByPath ==
    PlanBuilt =>
        /\ \A i \in 1..Len(files) : Grouped(files[i], GetCategory(Name(files[i].path)))
        /\ pc = "planned" => fs = fs0
        /\ plan = CreateOrganizationPlan(files)

\* the paths where the content that path p held before the execution is found
PlacesOf(p) == {q \in DOMAIN fs : fs[q].kind = "file" /\ fs[q].data = fs0[p].data}

\* the attempts of execute_plan on a planned regular file that was at its
\* source path when the attempt began
FileAttempts ==
    {k \in 1..Len(ex.attempts) :
        /\ ex.attempts[k].existed
        /\ ex.attempts[k].path \in DOMAIN fs0
        /\ fs0[ex.attempts[k].path].kind = "file"}

\* C26: after execute_plan returned, every planned file whose source existed
\* is in exactly one place: directly inside Desktop/<its category> when its
\* move was counted, at its source path when its move was reported as an
\* error.
C26_ExactlyOnePlace ==
    pc = "done" =>
        \A k \in FileAttempts :
            LET a == ex.attempts[k]
            IN IF a.success
               THEN /\ PlacesOf(a.path) = {results[k].destination}
                    /\ Parent(results[k].destination) = Append(Desktop, a.category)
               ELSE PlacesOf(a.path) = {a.path}

\* the same with a base directory the caller may write and a plan of regular
\* files that are there
ExactlyOnePlaceInWritableBase ==
    (/\ pc = "done" /\ fs0[Desktop].mode = "rw"
     /\ \A i \in 1..Len(files) :
           files[i].path \in DOMAIN fs0 /\ fs0[files[i].path].kind = "file") =>
        \A k \in FileAttempts :
            LET a == ex.attempts[k]
            IN IF a.success
               THEN /\ PlacesOf(a.path) = {results[k].destination}
                    /\ Parent(results[k].destination) = Append(Desktop, a.category)
               ELSE PlacesOf(a.path) = {a.path}

\* the directories of the filesystem and the entries directly in one
Directories == {d \in DOMAIN fs : fs[d].kind = "dir"}
EntriesIn(d) == {q \in DOMAIN fs : Len(q) = Len(d) + 1 /\ IsUnder(q, d)}

\* resolve_name_conflict tests at most one path more than the directory has
\* entries
ProbesBounded ==
    \A d \in Directories : \A n \in DesktopNames :
        ExistenceTests(fs, Append(d, n)) <= Cardinality(EntriesIn(d)) + 1

\* C25: every run terminates: resolve_name_conflict returns after at most one
\* existence test more than the directory has entries, and execute_plan
\* returns a result for every plan, also when every folder creation and every
\* move fails, and total_moved is then 0.
C25_RunTerminates ==
    /\ <>(pc = "done")
    /\ []ProbesBounded
    /\ []((pc = "done" /\ FailedFolders = Len(ex.folders) /\ FailedMoves = Len(ex.attempts))
             => ex.total_moved = 0)

\* C25 witness: execute_plan returned after every folder creation and every
\* move failed, in a filesystem where a name needs a second existence test.
C25_Witness ==
    /\ pc = "done"
    /\ Len(ex.folders) >= 1 /\ FailedFolders = Len(ex.folders)
    /\ Len(ex.attempts) >= 2 /\ FailedMoves = Len(ex.attempts)
    /\ ex.total_moved = 0
    /\ \E d \in Directories : \E n \in DesktopNames : ExistenceTests(fs, Append(d, n)) >= 2

-----------------------------------------------------------------------------
(* Properties of the workflow (SpecMain)                                    *)

Executing == pc \in {"folders", "moves", "done"}

\* C22: in main(), execute_plan is invoked only after the prompt returned
\* true; when the user declines or the scan finds no file, the run ends
\* without creating a folder or moving a file.
C22_ExecuteOnlyConfirmed ==
    main.driver = "main" =>
        /\ (Executing \/ main.pc = "execute") =>
              (main.confirmed = {TRUE} /\ Len(files) > 0 /\ scan.pc = "returned")
        /\ main.confirmed # {TRUE} => (fs = fs0 /\ ex = NoExec /\ calls = <<>>)
        /\ main.pc = "cancelled" => (main.confirmed = {FALSE} /\ fs = fs0)
        /\ (scan.pc = "returned" /\ scan.files = <<>> /\ main.pc # "scan") =>
              (main.pc = "exit0" /\ pc = "idle" /\ fs = fs0)

\* C22 witness: the user gave an answer that is neither yes nor no, then
\* declined a plan for two files, and the run ended.
C22_Witness ==
    /\ main.driver = "main"
    /\ main.pc = "cancelled"
    /\ main.asked = 1
    /\ plan.total_files = 2
    /\ fs = fs0

\* the categories of the plan whose name a non-directory entry of the
\* directory had when the run began
OccupiedCategories ==
    {c \in Range(plan.folders_to_create) :
        Append(Desktop, c) \in DOMAIN fs0 /\ fs0[Append(Desktop, c)].kind # "dir"}

\* C27 as stated: after execute_plan on a plan built from a scan of a writable
\* directory, Desktop/<category> is a directory for every category of
\* folders_to_create, whatever regular files the directory held.
C27_FoldersExist ==
    (pc = "done" /\ fs0[Desktop].mode = "rw") =>
        \A c \in Range(plan.folders_to_create) : IsDir(fs, Append(Desktop, c))

\* C27, amended: the same when no regular file of the directory had the name
\* of a category of folders_to_create.
C27_FoldersExistUnlessOccupied ==
    (pc = "done" /\ fs0[Desktop].mode = "rw" /\ OccupiedCategories = {}) =>
        \A c \in Range(plan.folders_to_create) : IsDir(fs, Append(Desktop, c))

\* C27 witness: the directory held a regular file named ZIPs and B.GIF; the
\* plan had the folders Images and Others, and both are directories.
C27_Witness ==
    /\ pc = "done"
    /\ fs0[Desktop].mode = "rw"
    /\ ZipsFolder \in DOMAIN fs0 /\ fs0[ZipsFolder].kind = "file"
    /\ Len(plan.folders_to_create) = 2
    /\ OccupiedCategories = {}
    /\ \A c \in Range(plan.folders_to_create) : IsDir(fs, Append(Desktop, c))

\* the first run executed a plan and reported no error, and this is a later run
AfterCleanRun ==
    /\ main.run >= 2
    /\ Len(main.history) >= 1
    /\ main.history[1].run = 1
    /\ main.history[1].errors = <<>>

\* C29: after a run of scan, plan and execution that reported no error, a
\* second scan of the directory returns no record, the second plan is empty,
\* and the second execution moves nothing and leaves every file where the
\* first run put it.
C29_SecondRunIsNoOp ==
    (AfterCleanRun /\ main.run = 2) =>
        /\ scan.pc # "raised"
        /\ scan.files = <<>>
        /\ files = <<>>
        /\ PlanBuilt => (plan.total_files = 0 /\ plan.folders_to_create = <<>>)
        /\ ex.total_moved = 0 /\ ex.errors = <<>>
        /\ fs = main.history[1].fs

\* C29 witness: the first run moved two files without an error and the second
\* execution has returned.
C29_Witness ==
    /\ AfterCleanRun /\ main.run = 2
    /\ main.history[1].total_moved = 2
    /\ main.driver = "pipeline"
    /\ pc = "done"

-----------------------------------------------------------------------------
(* Properties of concurrent moves (SpecRace)                                *)

Returned(i) == race.movers[i].pc = "done"
Succeeded == {k \in 1..Len(results) : results[k].success}

\* no move that returned replaced an existing entry, and no two successful
\* moves returned the same destination
NoOverwriteNoClash ==
    /\ \A i \in Movers : Returned(i) => ~race.movers[i].overwrote
    /\ \A k, l \in Succeeded : k # l => results[k].destination # results[l].destination

\* C30 as stated: move_file never overwrites an existing file and two moves
\* never end at the same destination path, also when another move of a file
\* of the same base name, or another writer, runs between the collision check
\* and the relocation.
C30_NeverOverwrites ==
    /\ \A i \in Movers : ~race.movers[i].overwrote
    /\ \A k \in Succeeded : \A l \in Succeeded \ {k} :
          results[k].destination # results[l].destination

\* C30, amended: the same when nothing was written to the destination folder
\* between the collision check and the relocation of any move.
C30_SerializedNeverOverwrites ==
    (\A i \in Movers : Returned(i) => ~race.movers[i].disturbed) => NoOverwriteNoClash

\* C30 witness: two moves of a.gz into a folder that held a.gz, one after the
\* other, returned a_1.gz and a_2.gz.
C30_Witness ==
    /\ \A i \in Movers : Returned(i) /\ ~race.movers[i].disturbed
    /\ Cardinality(Succeeded) = 2
    /\ {results[k].destination : k \in Succeeded}
          = {Append(Dest, A_1_gz), Append(Dest, A_2_gz)}
    /\ fs[Append(Dest, A_gz)] = fs0[Append(Dest, A_gz)]

=============================================================================
